---- MODULE Spec2Model ----
(***************************************************************************)
(* A model of the hashicorp/go-rate limiter: the expirable quota store     *)
(* (expirable_store.go), its background reclaimer, and the three-dimension *)
(* decision of Limiter.Allow (limiter.go).                                 *)
(*                                                                         *)
(* Time is discrete, and every instant the program keeps (a quota's or a    *)
(* bucket's expiresAt, the end of the reclaimer's sleep) is held as its    *)
(* offset from the current reading of the clock: x stands for the instant  *)
(* now + x, and 0 for every instant that is not after now.  The program    *)
(* only compares instants with now and with each other and subtracts now   *)
(* from them, which the offsets decide exactly; when the clock advances,   *)
(* every offset drops by one.                                              *)
(*                                                                         *)
(* Every action that touches the store is one critical section of          *)
(* expirableStore.mu: the mutex is held from the first to the last store   *)
(* access of the action, so actions of different goroutines interleave     *)
(* exactly where the code releases it.                                     *)
(***************************************************************************)
EXTENDS Integers, Sequences, FiniteSets, TLC

\* The number of Allow calls a behaviour makes.
MaxCalls == 2

(***************************************************************************)
(* Configuration handed to NewLimiter.                                     *)
(***************************************************************************)
MaxSize == 3
NumberBuckets == 2

\* The goroutines that call Limiter.Allow.
Procs == {1, 2}

NilEntry == 0

LimitPerTotal == "total"
LimitPerIPAddress == "ip-address"
LimitPerAuthToken == "auth-token"

allowOrder == <<LimitPerTotal, LimitPerIPAddress, LimitPerAuthToken>>

requiredLimitPer == {LimitPerTotal, LimitPerIPAddress, LimitPerAuthToken}

Limit(res, act, per, max, period) ==
  [Resource |-> res, Action |-> act, Per |-> per, Unlimited |-> FALSE,
   MaxRequests |-> max, Period |-> period]

NilLimit == Limit("", "", "", 0, 0)

\* A limit with Unlimited set: IsValid wants MaxRequests and Period zero.
Unlimited(res, act, per) == [Limit(res, act, per, 0, 0) EXCEPT !.Unlimited = TRUE]

\* The limits given to NewLimiter, the periods in clock units: a policy with
\* three limits, one whose auth-token limit is Unlimited, and one whose limits
\* are all Unlimited.
Limits ==
  { Limit("r", "a", LimitPerTotal, 2, 2),
    Limit("r", "a", LimitPerIPAddress, 1, 1),
    Limit("r", "a", LimitPerAuthToken, 1, 1),
    Limit("m", "a", LimitPerTotal, 2, 2),
    Limit("m", "a", LimitPerIPAddress, 1, 1),
    Unlimited("m", "a", LimitPerAuthToken),
    Unlimited("u", "a", LimitPerTotal),
    Unlimited("u", "a", LimitPerIPAddress),
    Unlimited("u", "a", LimitPerAuthToken) }

\* The requests the callers issue: (resource, action, ip, authToken).
Requests == { <<"r", "a", "i1", "t1">> }

\* The identities the store's own clients ask for, as requests.
Clients == Requests \cup { <<"r", "a", "i2", "t1">>, <<"r", "a", "i3", "t1">> }

RECURSIVE join(_)
join(parts) ==
  IF Len(parts) = 0 THEN ""
  ELSE IF Len(parts) = 1 THEN parts[1]
  ELSE parts[1] \o ":" \o join(Tail(parts))

getKey(parts) == join(parts)

SetMax(S) == CHOOSE x \in S : \A y \in S : y <= x

\* NewLimiter: group the limits by (resource, action) into policies.
policies ==
  [k \in {getKey(<<l.Resource, l.Action>>) : l \in Limits} |->
     [per \in {l.Per : l \in {m \in Limits : getKey(<<m.Resource, m.Action>>) = k}} |->
        CHOOSE l \in Limits : getKey(<<l.Resource, l.Action>>) = k /\ l.Per = per]]

\* keys: the id fetched for each dimension of a request.
keyOf(a, per) ==
  IF per = LimitPerTotal THEN LimitPerTotal
  ELSE IF per = LimitPerIPAddress THEN a[3] ELSE a[4]

\* The (id, limit) pairs the store is asked for.
FetchInputs ==
  {<<keyOf(r, l.Per), l>> : <<l, r>> \in {x \in Limits \X Clients :
                               x[1].Resource = x[2][1] /\ x[1].Action = x[2][2]}}

\* Every key the store can hold, in a fixed order.
AllKeys ==
  LET ks == {getKey(<<x[2].Resource, x[2].Action, x[2].Per, x[1]>>) : x \in FetchInputs}
  IN CHOOSE sq \in [1..Cardinality(ks) -> ks] : \A k \in ks : \E i \in DOMAIN sq : sq[i] = k

\* Addresses of the entry objects (an entry and the Quota it points to).  One
\* per key, and one more for each pointer a running Allow call can hold to an
\* entry that has left the store.
EntryIds == 1..(Len(AllKeys) + Len(allowOrder) * Cardinality(Procs))

maxEntryTTL == SetMax({l.Period : l \in Limits} \cup {0})

\* newExpirableStore: bucketTTL := maxEntryTTL / (numberBuckets - 1)
bucketTTL == maxEntryTTL \div (NumberBuckets - 1)

VARIABLES
  sinceTick, \* the time since the ticker last fired
  tick,     \* a tick waits in ticker.C (a channel of capacity 1)
  s,        \* the expirableStore, with the entries it allocated (s.heap)
  rpc,      \* where the reclaimer goroutine (deleteExpired) stands
  toExpire, \* emptyExpiredBucket's local toExpire
  wakeAt,   \* the instant the reclaimer's time.Sleep ends
  pc,       \* per caller: where its Allow call stands
  args,     \* per caller: (resource, action, ip, authToken)
  todo,     \* per caller: the dimensions `range keys` has yet to yield
  quotas,   \* per caller: Allow's local map quotas (per -> *Quota)
  ci,       \* per caller: index into allowOrder of the consume loop
  ret,      \* per caller: the named results (allowed, quota, err)
  calls,    \* history: the number of Allow calls begun
  hist,     \* history: the first call's arguments, whether every call repeated
            \* them, and the time since the first call began
  charged,  \* history, per caller: the Consume calls of the running Allow call
  last,     \* history: the last step, when it was a direct fetch on the store
  fcall,    \* the store client's fetch that has passed the check of ctx.Done()
            \* and waits for s.mu: (id, limit), or NoCall
  ctor,     \* a call of NewLimiter or newExpirableStore: its arguments and
            \* what it returned
  pol,      \* a limitPolicy that add is called on
  polh,     \* history: the last call on pol or on the limiter that holds it
  quo,      \* a Quota that Remaining and Consume are called on, with what
            \* Remaining returned
  swept,    \* history, where it is kept (swept.on): per key of the store, the
            \* number of sweeps begun since its entry was placed in its bucket
  top,      \* history, where it is kept: the keys of the store whose quota
            \* expires at the very instant that is the expiresAt of the
            \* entry's bucket
  win       \* history, where it is kept: for each key the reclaimer removed
            \* while its quota had requests counted and had not expired, the
            \* used counter and expiresAt of that quota

vars == <<sinceTick, tick, s, rpc, toExpire, wakeAt, pc, args, todo, quotas, ci, ret,
          calls, hist, charged, last, fcall, ctor, pol, polh, quo, swept, top, win>>

----
\* Errors (errors.go).  RetryIn is 0 unless the code sets it.
NilErr == [kind |-> "nil", RetryIn |-> 0]
ErrStopped == [kind |-> "ErrStopped", RetryIn |-> 0]
ErrLimitNotFound == [kind |-> "ErrLimitNotFound", RetryIn |-> 0]
ErrLimitPolicyNotFound == [kind |-> "ErrLimitPolicyNotFound", RetryIn |-> 0]
ErrLimiterFull == [kind |-> "ErrLimiterFull", RetryIn |-> 0]
ErrInvalidParameter == [kind |-> "ErrInvalidParameter", RetryIn |-> 0]
ErrEmptyLimits == [kind |-> "ErrEmptyLimits", RetryIn |-> 0]
ErrInvalidLimit == [kind |-> "ErrInvalidLimit", RetryIn |-> 0]
ErrDuplicateLimit == [kind |-> "ErrDuplicateLimit", RetryIn |-> 0]
ErrInvalidLimitPolicy == [kind |-> "ErrInvalidLimitPolicy", RetryIn |-> 0]
ErrInvalidNumberBuckets == [kind |-> "ErrInvalidNumberBuckets", RetryIn |-> 0]
ErrInvalidMaxSize == [kind |-> "ErrInvalidMaxSize", RetryIn |-> 0]
\* Not an error value: the call did not return, the runtime panicked with
\* "integer divide by zero".
PanicDivide == [kind |-> "panic: integer divide by zero", RetryIn |-> 0]

----
\* Go maps as functions.
MapPut(m, k, v) == [x \in DOMAIN m \cup {k} |-> IF x = k THEN v ELSE m[x]]
MapDel(m, k) == [x \in DOMAIN m \ {k} |-> m[x]]
EmptyMap == [x \in {} |-> NilEntry]

----
\* time.Now(), the origin of the offsets.
Now == 0

\* Quota.  An entry and the Quota it points to are one object of the heap.
ZeroEntry == [key |-> "", bucket |-> 0, limit |-> NilLimit, used |-> 0, expiresAt |-> 0]

reset(q, limit, t) == [q EXCEPT !.limit = limit, !.used = 0, !.expiresAt = t + limit.Period]

\* MaxRequests and used are uint64; the model keeps the arithmetic of
\* unsigned integers at a width of UintBits bits.
UintBits == 4
UintMod == 2 ^ UintBits
MaxUint == UintMod - 1

\* Remaining as the unsigned subtraction alone.
RemainingWraps(q) == (q.limit.MaxRequests - q.used) % UintMod

Remaining(q) ==
  IF q.used > q.limit.MaxRequests THEN 0 ELSE (q.limit.MaxRequests - q.used) % UintMod

Expired(q, t) == t >= q.expiresAt

Consume(q) == [q EXCEPT !.used = (@ + 1) % UintMod]

----
\* expirableStore (expirable_store.go).  Every operator below runs with s.mu held.

\* addToBucket that takes the bucket from the period alone.
addToBucketFromZero(st, e) ==
  LET q == st.heap[e]
      b == (q.limit.Period \div st.bucketTTL) % st.numberBuckets
      bk == st.buckets[b]
  IN [st EXCEPT !.heap[e].bucket = b,
                !.buckets[b] = [entries |-> MapPut(bk.entries, q.key, e),
                                expiresAt |-> IF bk.expiresAt < q.expiresAt
                                              THEN q.expiresAt ELSE bk.expiresAt]]

\* addToBucket that leaves the bucket's expiresAt as it is.
addToBucketKeepsExpiresAt(st, e) ==
  LET q == st.heap[e]
      b == ((q.limit.Period \div st.bucketTTL) + st.nextBucketToExpire) % st.numberBuckets
      bk == st.buckets[b]
  IN [st EXCEPT !.heap[e].bucket = b,
                !.buckets[b] = [entries |-> MapPut(bk.entries, q.key, e),
                                expiresAt |-> bk.expiresAt]]

\* s.buckets[e.bucket].entries[e.key] = e, and the bucket's expiresAt raised.
addToBucket(st, e) ==
  LET q == st.heap[e]
      b == ((q.limit.Period \div st.bucketTTL) + st.nextBucketToExpire) % st.numberBuckets
      bk == st.buckets[b]
  IN [st EXCEPT !.heap[e].bucket = b,
                !.buckets[b] = [entries |-> MapPut(bk.entries, q.key, e),
                                expiresAt |-> IF bk.expiresAt < q.expiresAt
                                              THEN q.expiresAt ELSE bk.expiresAt]]

removeFromBucket(st, e) ==
  [st EXCEPT !.buckets[st.heap[e].bucket].entries = MapDel(@, st.heap[e].key)]

\* removeEntry that leaves the entry in its bucket.
removeEntryKeepsBucket(st, e) ==
  LET st1 == [st EXCEPT !.items = MapDel(@, st.heap[e].key)]
  IN [st1 EXCEPT !.pool = @ \cup {e}]

removeEntry(st, e) ==
  LET st1 == [st EXCEPT !.items = MapDel(@, st.heap[e].key)]
      st2 == removeFromBucket(st1, e)
  IN [st2 EXCEPT !.pool = @ \cup {e}]

\* add that refuses a new key only above maxSize.
addOffByOne(st, e) ==
  LET key == st.heap[e].key
  IN IF key \notin DOMAIN st.items /\ Cardinality(DOMAIN st.items) > st.maxSize
     THEN [st |-> st, err |-> ErrLimiterFull]
     ELSE [st |-> addToBucket([st EXCEPT !.items = MapPut(@, key, e)], e), err |-> NilErr]

\* add that puts the entry into its bucket before it looks at the capacity.
addBeforeCheck(st, e) ==
  LET key == st.heap[e].key
  IN IF key \notin DOMAIN st.items /\ Cardinality(DOMAIN st.items) >= st.maxSize
     THEN [st |-> addToBucket(st, e), err |-> ErrLimiterFull]
     ELSE [st |-> addToBucket([st EXCEPT !.items = MapPut(@, key, e)], e), err |-> NilErr]

\* add returns the store and the error.
add(st, e) ==
  LET key == st.heap[e].key
  IN IF key \notin DOMAIN st.items /\ Cardinality(DOMAIN st.items) >= st.maxSize
     THEN [st |-> st, err |-> ErrLimiterFull]
     ELSE [st |-> addToBucket([st EXCEPT !.items = MapPut(@, key, e)], e), err |-> NilErr]

\* s.pool.Get(): an entry put back earlier, or a new zero entry (pool.New); which
\* one is up to sync.Pool.  A new entry for key is allocated at the address
\* reserved for the key, or, when an older entry still lives there, at the lowest
\* free address (where a new object lies cannot be observed).
PoolGet(st, key) ==
  LET fresh == {e \in EntryIds : e \notin st.pool /\ \A k \in DOMAIN st.items : st.items[k] # e}
      own == {e \in fresh : e \in DOMAIN AllKeys /\ AllKeys[e] = key}
      new == IF own # {} THEN own ELSE fresh
  IN st.pool \cup (IF new = {} THEN {} ELSE {CHOOSE e \in new : \A f \in new : e <= f})

\* sync.Pool drops, at any time, an item nothing else refers to; the memory is
\* then free again.  live: the entries some goroutine still points to.
collect(st, live) ==
  LET dead == st.pool \ live
  IN [st EXCEPT !.pool = @ \ dead,
                !.heap = [e \in DOMAIN @ |-> IF e \in dead THEN ZeroEntry ELSE @[e]]]

\* The critical section that looks at the capacity before it looks up the key.
fetchLockedChecksFirst(st, id, limit, e0, t) ==
  LET key == getKey(<<limit.Resource, limit.Action, limit.Per, id>>)
  IN IF Cardinality(DOMAIN st.items) >= st.maxSize
     THEN [st |-> st, q |-> NilEntry, err |-> ErrLimiterFull]
     ELSE IF key \notin DOMAIN st.items
     THEN LET st1 == [st EXCEPT !.pool = @ \ {e0},
                                !.heap[e0] = reset([@ EXCEPT !.key = key], limit, t)]
          IN [st |-> addToBucket([st1 EXCEPT !.items = MapPut(@, key, e0)], e0),
              q |-> e0, err |-> NilErr]
     ELSE LET e == st.items[key]
          IN IF Expired(st.heap[e], t)
             THEN LET st1 == removeFromBucket(st, e)
                      st2 == [st1 EXCEPT !.heap[e] = reset(@, limit, t)]
                  IN [st |-> addToBucket(st2, e), q |-> e, err |-> NilErr]
             ELSE [st |-> st, q |-> e, err |-> NilErr]

\* The critical section that resets a quota it finds, expired or not.
fetchLockedAlwaysResets(st, id, limit, e0, t) ==
  LET key == getKey(<<limit.Resource, limit.Action, limit.Per, id>>)
  IN IF key \notin DOMAIN st.items
     THEN LET st1 == [st EXCEPT !.pool = @ \ {e0},
                                !.heap[e0] = reset([@ EXCEPT !.key = key], limit, t)]
              r == add(st1, e0)
          IN IF r.err # NilErr
             THEN [st |-> [r.st EXCEPT !.pool = @ \cup {e0}], q |-> NilEntry, err |-> r.err]
             ELSE [st |-> r.st, q |-> e0, err |-> NilErr]
     ELSE LET e == st.items[key]
              st1 == removeFromBucket(st, e)
              st2 == [st1 EXCEPT !.heap[e] = reset(@, limit, t)]
          IN [st |-> addToBucket(st2, e), q |-> e, err |-> NilErr]

\* The critical section that resets an expired quota and adds it to its new
\* bucket without removing it from the old one.
fetchLockedKeepsOldBucket(st, id, limit, e0, t) ==
  LET key == getKey(<<limit.Resource, limit.Action, limit.Per, id>>)
  IN IF key \notin DOMAIN st.items
     THEN LET st1 == [st EXCEPT !.pool = @ \ {e0},
                                !.heap[e0] = reset([@ EXCEPT !.key = key], limit, t)]
              r == add(st1, e0)
          IN IF r.err # NilErr
             THEN [st |-> [r.st EXCEPT !.pool = @ \cup {e0}], q |-> NilEntry, err |-> r.err]
             ELSE [st |-> r.st, q |-> e0, err |-> NilErr]
     ELSE LET e == st.items[key]
          IN IF Expired(st.heap[e], t)
             THEN LET st2 == [st EXCEPT !.heap[e] = reset(@, limit, t)]
                  IN [st |-> addToBucket(st2, e), q |-> e, err |-> NilErr]
             ELSE [st |-> st, q |-> e, err |-> NilErr]

\* The critical section of fetch(id, limit), from s.mu.Lock() on, at instant t,
\* where e0 is what s.pool.Get() would return.  Returns the store, the quota
\* (the address of its entry) and the error.
fetchLocked(st, id, limit, e0, t) ==
  LET key == getKey(<<limit.Resource, limit.Action, limit.Per, id>>)
  IN IF key \notin DOMAIN st.items
     THEN LET st1 == [st EXCEPT !.pool = @ \ {e0},
                                !.heap[e0] = reset([@ EXCEPT !.key = key], limit, t)]
              r == add(st1, e0)
          IN IF r.err # NilErr
             THEN [st |-> [r.st EXCEPT !.pool = @ \cup {e0}], q |-> NilEntry, err |-> r.err]
             ELSE [st |-> r.st, q |-> e0, err |-> NilErr]
     ELSE LET e == st.items[key]
          IN IF Expired(st.heap[e], t)
             THEN LET st1 == removeFromBucket(st, e)
                      st2 == [st1 EXCEPT !.heap[e] = reset(@, limit, t)]
                  IN [st |-> addToBucket(st2, e), q |-> e, err |-> NilErr]
             ELSE [st |-> st, q |-> e, err |-> NilErr]

\* fetch without the check of ctx.Done().
fetchUnchecked(st, id, limit, e0, t) == fetchLocked(st, id, limit, e0, t)

\* fetch(id, limit): the check of ctx.Done(), then the critical section.  (A
\* shutdown between the two changes nothing the critical section reads, so the
\* two are one step here; StoreFetchCheck and StoreFetchBody take them apart.)
fetch(st, id, limit, e0, t) ==
  IF st.done THEN [st |-> st, q |-> NilEntry, err |-> ErrStopped]
  ELSE fetchLocked(st, id, limit, e0, t)

\* The loop of emptyExpiredBucket over bucket b: removeEntry for every entry
\* the range yields (a key deleted before the range reaches it is not yielded).
RECURSIVE removeAll(_, _, _)
removeAll(st, b, keys) ==
  IF keys = {} THEN st
  ELSE LET k == CHOOSE x \in keys : TRUE
           m == st.buckets[b].entries
       IN removeAll(IF k \in DOMAIN m THEN removeEntry(st, m[k]) ELSE st, b, keys \ {k})

\* emptyExpiredBucket whose loop removes nothing.
emptyBucketKeepsAll(st, b) == st

\* emptyExpiredBucket whose loop ranges over the bucket the index points to
\* after it was advanced.
emptyBucketOfNext(st, b) ==
  removeAll(st, st.nextBucketToExpire, DOMAIN st.buckets[st.nextBucketToExpire].entries)

emptyBucket(st, b) == removeAll(st, b, DOMAIN st.buckets[b].entries)

\* What newExpirableStore returns when it returns an error: no store.
NilStore ==
  [maxSize |-> 0, items |-> EmptyMap, buckets |-> EmptyMap, bucketTTL |-> 0,
   numberBuckets |-> 0, nextBucketToExpire |-> 0, pool |-> {},
   heap |-> [e \in EntryIds |-> ZeroEntry], done |-> FALSE]

\* The constructor that divides the TTL by the number of buckets.
newStoreDividesByN(maxSize, ttl, n) ==
  LET fail(e) == [err |-> e, st |-> NilStore, reclaimer |-> "none"]
  IN IF maxSize <= 0 THEN fail(ErrInvalidMaxSize)
     ELSE IF ttl <= 0 THEN fail(ErrInvalidParameter)
     ELSE IF n <= 0 THEN fail(ErrInvalidNumberBuckets)
     ELSE [err |-> NilErr,
           st |-> [maxSize |-> maxSize,
                   items |-> EmptyMap,
                   buckets |-> [b \in 0..(n - 1) |-> [entries |-> EmptyMap, expiresAt |-> 0]],
                   bucketTTL |-> ttl \div n,
                   numberBuckets |-> n,
                   nextBucketToExpire |-> 0,
                   pool |-> {},
                   heap |-> [e \in EntryIds |-> ZeroEntry],
                   done |-> FALSE],
           reclaimer |-> IF ttl \div n <= 0 THEN "panic" ELSE "running"]

\* The constructor that looks at the number of buckets before the TTL.
newStoreBucketsFirst(maxSize, ttl, n) ==
  LET fail(e) == [err |-> e, st |-> NilStore, reclaimer |-> "none"]
  IN IF maxSize <= 0 THEN fail(ErrInvalidMaxSize)
     ELSE IF n <= 0 THEN fail(ErrInvalidNumberBuckets)
     ELSE IF ttl <= 0 THEN fail(ErrInvalidParameter)
     ELSE IF n - 1 = 0 THEN fail(PanicDivide)
     ELSE [err |-> NilErr,
           st |-> [maxSize |-> maxSize,
                   items |-> EmptyMap,
                   buckets |-> [b \in 0..(n - 1) |-> [entries |-> EmptyMap, expiresAt |-> 0]],
                   bucketTTL |-> ttl \div (n - 1),
                   numberBuckets |-> n,
                   nextBucketToExpire |-> 0,
                   pool |-> {},
                   heap |-> [e \in EntryIds |-> ZeroEntry],
                   done |-> FALSE],
           reclaimer |-> IF ttl \div (n - 1) <= 0 THEN "panic" ELSE "running"]

\* newExpirableStore(maxSize, maxEntryTTL, WithNumberBuckets(n)): the error, the
\* store, and whether `go s.deleteExpired()` was reached, that is whether the
\* reclaimer goroutine exists ("none", "running", or "panic" when its
\* time.NewTicker(s.bucketTTL) gets a duration that is not positive).
newStore(maxSize, ttl, n) ==
  LET fail(e) == [err |-> e, st |-> NilStore, reclaimer |-> "none"]
  IN IF maxSize <= 0 THEN fail(ErrInvalidMaxSize)
     ELSE IF ttl <= 0 THEN fail(ErrInvalidParameter)
     ELSE IF n <= 0 THEN fail(ErrInvalidNumberBuckets)
     ELSE IF n - 1 = 0 THEN fail(PanicDivide)
     ELSE [err |-> NilErr,
           st |-> [maxSize |-> maxSize,
                   items |-> EmptyMap,
                   buckets |-> [b \in 0..(n - 1) |-> [entries |-> EmptyMap, expiresAt |-> 0]],
                   bucketTTL |-> ttl \div (n - 1),
                   numberBuckets |-> n,
                   nextBucketToExpire |-> 0,
                   pool |-> {},
                   heap |-> [e \in EntryIds |-> ZeroEntry],
                   done |-> FALSE],
           reclaimer |-> IF ttl \div (n - 1) <= 0 THEN "panic" ELSE "running"]

\* The store of the limiter the callers use.
newExpirableStore == newStore(MaxSize, maxEntryTTL, NumberBuckets).st

----
\* Limit (limit.go) and limitPolicy (policy.go).

\* LimitPer.IsValid
IsValidPer(per) == per \in {LimitPerTotal, LimitPerIPAddress, LimitPerAuthToken}

\* Limit.IsValid
IsValid(l) ==
  IF ~IsValidPer(l.Per) THEN FALSE
  ELSE IF l.Unlimited /\ (l.MaxRequests # 0 \/ l.Period # 0) THEN FALSE
  ELSE IF ~l.Unlimited /\ (l.MaxRequests = 0 \/ l.Period <= 0) THEN FALSE
  ELSE TRUE

newLimitPolicy(resource, action) ==
  [resource |-> resource, action |-> action, m |-> EmptyMap, policy |-> ""]

\* The clock's unit is half a second: Period.Seconds(), cut to a whole number.
UnitsPerSecond == 2
Seconds(d) == d \div UnitsPerSecond

\* fmt.Sprintf("%d;w=%d;comment=%q", MaxRequests, uint64(Period.Seconds()), Per)
headerEntry(l) ==
  ToString(l.MaxRequests) \o ";w=" \o ToString(Seconds(l.Period))
     \o ";comment=\"" \o l.Per \o "\""

\* strings.Join(ss, sep)
RECURSIVE Join(_, _)
Join(ss, sep) ==
  IF Len(ss) = 0 THEN ""
  ELSE IF Len(ss) = 1 THEN ss[1]
  ELSE ss[1] \o sep \o Join(Tail(ss), sep)

\* The loop of buildStr over requiredLimitPer, from its i-th element on: the
\* entries of the limits of m that are Limited.
RECURSIVE headerEntries(_, _)
headerEntries(m, i) ==
  IF i > Len(allowOrder) THEN <<>>
  ELSE LET per == allowOrder[i]
       IN IF per \notin DOMAIN m THEN headerEntries(m, i + 1)
          ELSE IF m[per].Unlimited THEN headerEntries(m, i + 1)
          ELSE <<headerEntry(m[per])>> \o headerEntries(m, i + 1)

\* buildStr that has an entry for every limit, Unlimited or not.
buildStrOfAll(m) ==
  Join([i \in 1..Len(SelectSeq(allowOrder, LAMBDA per : per \in DOMAIN m)) |->
          headerEntry(m[SelectSeq(allowOrder, LAMBDA per : per \in DOMAIN m)[i]])], ", ")

\* buildStr: the value of p.policy for the limits m.
buildStr(m) == Join(headerEntries(m, 1), ", ")

httpHeaderValue(p) == p.policy

\* add that replaces the limit the policy has for the same per.
policyAddReplaces(p, l) ==
  IF ~IsValid(l) THEN [p |-> p, err |-> ErrInvalidLimit]
  ELSE IF l.Resource # p.resource THEN [p |-> p, err |-> ErrInvalidLimit]
  ELSE IF l.Action # p.action THEN [p |-> p, err |-> ErrInvalidLimit]
  ELSE LET m1 == MapPut(p.m, l.Per, l)
       IN [p |-> [p EXCEPT !.m = m1, !.policy = buildStr(m1)],
           err |-> IF l.Per \in DOMAIN p.m THEN ErrDuplicateLimit ELSE NilErr]

\* limitPolicy.add: the policy afterwards and the error.
policyAdd(p, l) ==
  IF ~IsValid(l) THEN [p |-> p, err |-> ErrInvalidLimit]
  ELSE IF l.Resource # p.resource THEN [p |-> p, err |-> ErrInvalidLimit]
  ELSE IF l.Action # p.action THEN [p |-> p, err |-> ErrInvalidLimit]
  ELSE IF l.Per \in DOMAIN p.m THEN [p |-> p, err |-> ErrDuplicateLimit]
  ELSE LET m1 == MapPut(p.m, l.Per, l)
       IN [p |-> [p EXCEPT !.m = m1, !.policy = buildStr(m1)], err |-> NilErr]

\* validate that does not look at the limits.
validateNamesOnly(p) ==
  IF p.resource = "" THEN ErrInvalidLimitPolicy
  ELSE IF p.action = "" THEN ErrInvalidLimitPolicy
  ELSE NilErr

\* limitPolicy.validate
validate(p) ==
  IF p.resource = "" THEN ErrInvalidLimitPolicy
  ELSE IF p.action = "" THEN ErrInvalidLimitPolicy
  ELSE IF Cardinality(DOMAIN p.m) # 3 /\ \E per \in requiredLimitPer : per \notin DOMAIN p.m
  THEN ErrInvalidLimitPolicy
  ELSE NilErr

\* Limiter.SetPolicyHeader(resource, action, header) of a limiter with the
\* policies pols: the header afterwards and the error.
DefaultPolicyHeader == "RateLimit-Policy"

\* limitPolicy.String, whose value SetPolicyHeader writes: the cached header
\* string of the policy.
String(p) == p.policy

SetPolicyHeader(pols, resource, action, header) ==
  LET polKey == getKey(<<resource, action>>)
  IN IF polKey \notin DOMAIN pols THEN [header |-> header, err |-> ErrLimitPolicyNotFound]
     ELSE IF String(pols[polKey]) = "" THEN [header |-> header, err |-> NilErr]
     ELSE [header |-> MapPut(header, DefaultPolicyHeader, String(pols[polKey])),
           err |-> NilErr]

----
\* NewLimiter (limiter.go).

\* The loop `for _, l := range limits` from limits[i] on, with the policies and
\* the greatest period so far.
RECURSIVE addLimits(_, _, _, _)
addLimits(limits, i, pols, ttl) ==
  IF i > Len(limits) THEN [policies |-> pols, maxEntryTTL |-> ttl, err |-> NilErr]
  ELSE LET l == limits[i]
           polKey == getKey(<<l.Resource, l.Action>>)
           policy == IF polKey \in DOMAIN pols THEN pols[polKey]
                     ELSE newLimitPolicy(l.Resource, l.Action)
           r == policyAdd(policy, l)
       IN IF ~IsValid(l)
          THEN [policies |-> pols, maxEntryTTL |-> ttl, err |-> ErrInvalidLimit]
          ELSE IF r.err # NilErr
          THEN [policies |-> MapPut(pols, polKey, policy), maxEntryTTL |-> ttl, err |-> r.err]
          ELSE addLimits(limits, i + 1, MapPut(pols, polKey, r.p),
                         IF l.Period > ttl THEN l.Period ELSE ttl)

\* What NewLimiter returns when it returns an error: no limiter.
NoLimiter(e) ==
  [err |-> e, built |-> FALSE, policies |-> EmptyMap, maxEntryTTL |-> 0,
   st |-> NilStore, reclaimer |-> "none"]

\* NewLimiter(limits, maxSize, WithNumberBuckets(n)).  The policies are validated
\* in the order of a Go map; whichever fails first, the error is the same.
NewLimiter(limits, maxSize, n) ==
  IF Len(limits) <= 0 THEN NoLimiter(ErrEmptyLimits)
  ELSE LET a == addLimits(limits, 1, EmptyMap, 0)
           bad == {validate(a.policies[k]) : k \in DOMAIN a.policies} \ {NilErr}
           r == newStore(maxSize, a.maxEntryTTL, n)
       IN IF a.err # NilErr THEN NoLimiter(a.err)
          ELSE IF bad # {} THEN NoLimiter(CHOOSE e \in bad : TRUE)
          ELSE IF r.err # NilErr THEN NoLimiter(r.err)
          ELSE [err |-> NilErr, built |-> TRUE, policies |-> a.policies,
                maxEntryTTL |-> a.maxEntryTTL, st |-> r.st, reclaimer |-> r.reclaimer]

----
\* Limiter.Allow (limiter.go), one goroutine per caller p.

NilRet == [allowed |-> TRUE, quota |-> NilEntry, err |-> NilErr]
NoQuotas == [per \in requiredLimitPer |-> NilEntry]
NoArgs == <<"", "", "", "">>
NoHist == [first |-> NoArgs, same |-> TRUE, age |-> 0]
NoLast == [op |-> "none", key |-> "", q |-> NilEntry, err |-> NilErr,
           full |-> FALSE, stopped |-> FALSE, expired |-> FALSE, pre |-> <<>>, snap |-> <<>>]
NoCall == <<>>
NoCtor ==
  [op |-> "none", limits |-> <<>>, maxSize |-> 0, ttl |-> 0, n |-> 0, called |-> FALSE,
   out |-> NoLimiter(NilErr)]
NoPolicy == newLimitPolicy("", "")
NoPolh ==
  [op |-> "none", arg |-> NilLimit, err |-> NilErr, pre |-> NoPolicy, header |-> EmptyMap]

NoQuo == [q |-> ZeroEntry, op |-> "none", out |-> 0]

\* A reclaimer that returns from deleteExpired with s.mu locked.
reclaimerExitsLocked(r) == r = "exit"

\* A reclaimer that keeps s.mu locked through its time.Sleep.
reclaimerSleepsLocked(r) == r = "sleep"

\* Whether the reclaimer goroutine holds s.mu while it stands at r, between
\* two of its steps: waiting in its select it is outside emptyExpiredBucket,
\* and emptyExpiredBucket unlocks s.mu before time.Sleep and locks it after.
reclaimerHoldsMu(r) == FALSE

\* The history swept after a step that takes the store from st0 to st1: an
\* entry that was added, or whose quota was reset and put into a bucket again,
\* has seen no sweep; inc is 1 when the step begins a sweep.
sweptAfter(st0, st1, sw, inc) ==
  IF ~sw.on THEN sw
  ELSE [sw EXCEPT !.n = [k \in DOMAIN st1.items |->
                           IF \/ k \notin DOMAIN st0.items
                              \/ st1.items[k] # st0.items[k]
                              \/ st1.heap[st1.items[k]].expiresAt
                                   > st0.heap[st0.items[k]].expiresAt
                           THEN 0 ELSE sw.n[k] + inc]]

\* The keys a step from st0 to st1 placed: those it added, and those whose
\* quota it reset and put into a bucket again.
placedKeys(st0, st1) ==
  {k \in DOMAIN st1.items :
     \/ k \notin DOMAIN st0.items
     \/ st1.items[k] # st0.items[k]
     \/ st1.heap[st1.items[k]].expiresAt > st0.heap[st0.items[k]].expiresAt}

\* No history of removed quotas is kept.
NoWin == [on |-> FALSE, q |-> [k \in {} |-> 0]]

\* The history win after a step that takes the store from st0 to st1: the
\* quotas of the keys that left s.items in the step (removeEntry) with requests
\* counted and their window open join it, the keys s.items holds leave it.
winAfter(st0, st1, wn) ==
  LET removed == {k \in DOMAIN st0.items \ DOMAIN st1.items :
                    /\ st0.heap[st0.items[k]].used > 0
                    /\ ~Expired(st0.heap[st0.items[k]], Now)}
      keep == (DOMAIN wn.q \cup removed) \ DOMAIN st1.items
  IN IF ~wn.on THEN wn
     ELSE [wn EXCEPT !.q = [k \in keep |->
             IF k \in removed
             THEN [used |-> st0.heap[st0.items[k]].used,
                   expiresAt |-> st0.heap[st0.items[k]].expiresAt]
             ELSE wn.q[k]]]

\* The history top after a step that takes the store from st0 to st1.  An
\* entry that addToBucket places expires after now, so the comparison of its
\* expiresAt with the bucket's, `Before`, is the comparison of the offsets: the
\* bucket's expiresAt is raised to the entry's, was equal to it, or is later.
topAfter(st0, st1, tp) ==
  LET placed == placedKeys(st0, st1)
      kept == (tp \cap DOMAIN st1.items) \ placed
  IN IF ~swept.on THEN tp
     ELSE IF placed = {} THEN kept
     ELSE LET k == CHOOSE x \in placed : TRUE
              e == st1.items[k]
              b == st1.heap[e].bucket
          IN IF st0.buckets[b].expiresAt < st1.heap[e].expiresAt
             THEN (kept \ DOMAIN st1.buckets[b].entries) \cup {k}
             ELSE IF st0.buckets[b].expiresAt = st1.heap[e].expiresAt
             THEN kept \cup {k}
             ELSE kept

\* The entries the callers' locals point to.
live(qs, rt) ==
  ({qs[p][per] : <<p, per>> \in Procs \X requiredLimitPer} \cup {rt[p].quota : p \in Procs})
     \ {NilEntry}

\* What a sweep or a failed fetch must not touch: items, the buckets, the index.
shape(st) == <<st.items, st.buckets, st.nextBucketToExpire>>

\* The store as its clients can see it: items, the buckets, the index and the
\* quotas of the entries it holds.
snapshot(st) ==
  <<st.items, st.buckets, st.nextBucketToExpire,
    [k \in DOMAIN st.items |-> st.heap[st.items[k]]]>>

\* No history of the sweeps is kept.
NotSwept == [on |-> FALSE, n |-> [k \in {} |-> 0]]

\* The limiter and its store after NewLimiter, nothing running yet.
InitLimiter ==
  /\ sinceTick = 0
  /\ tick = FALSE
  /\ s = newExpirableStore
  /\ rpc = "wait"
  /\ toExpire = 0
  /\ wakeAt = 0
  /\ pc = [p \in Procs |-> "idle"]
  /\ args = [p \in Procs |-> NoArgs]
  /\ todo = [p \in Procs |-> {}]
  /\ quotas = [p \in Procs |-> NoQuotas]
  /\ ci = [p \in Procs |-> 1]
  /\ ret = [p \in Procs |-> NilRet]
  /\ calls = 0
  /\ hist = NoHist
  /\ charged = [p \in Procs |-> <<>>]
  /\ last = NoLast
  /\ fcall = NoCall

InitRun ==
  /\ InitLimiter
  /\ swept = NotSwept
  /\ top = {}
  /\ win = NoWin

Init ==
  /\ InitRun
  /\ ctor = NoCtor
  /\ pol = NoPolicy
  /\ polh = NoPolh
  /\ quo = NoQuo

\* Entry into Allow: RLock, the locals, allowed = true.
AllowBegin(p, req) ==
  /\ pc[p] = "idle"
  /\ calls < MaxCalls
  /\ calls' = calls + 1
  /\ hist' = IF calls = 0 THEN [hist EXCEPT !.first = req]
             ELSE [hist EXCEPT !.same = @ /\ req = hist.first]
  /\ pc' = [pc EXCEPT ![p] = "fetch"]
  /\ args' = [args EXCEPT ![p] = req]
  /\ todo' = [todo EXCEPT ![p] = requiredLimitPer]
  /\ quotas' = [quotas EXCEPT ![p] = NoQuotas]
  /\ ci' = [ci EXCEPT ![p] = 1]
  /\ ret' = [ret EXCEPT ![p] = NilRet]
  /\ charged' = [charged EXCEPT ![p] = <<>>]
  /\ UNCHANGED <<sinceTick, tick, s, rpc, toExpire, wakeAt, last, fcall,
                 ctor, pol, polh, quo, swept, top, win>>

\* The iteration without the check of Remaining.
fetchStepUnchecked(st, a, per, e0, t) ==
  LET key == getKey(<<a[1], a[2]>>)
      fail(st1, q, err) == [st |-> st1, returns |-> TRUE, keep |-> NilEntry,
                            ret |-> [allowed |-> FALSE, quota |-> q, err |-> err]]
  IN IF key \notin DOMAIN policies
     THEN fail(st, NilEntry, ErrLimitPolicyNotFound)
     ELSE IF per \notin DOMAIN policies[key]
     THEN fail(st, NilEntry, ErrLimitNotFound)
     ELSE LET r == fetch(st, keyOf(a, per), policies[key][per], e0, t)
          IN IF r.err # NilErr
             THEN fail(r.st, NilEntry, r.err)
             ELSE [st |-> r.st, returns |-> FALSE, keep |-> r.q, ret |-> NilRet]

\* The iteration that consumes each quota as soon as it has passed the check.
fetchStepCharging(st, a, per, e0, t) ==
  LET key == getKey(<<a[1], a[2]>>)
      fail(st1, q, err) == [st |-> st1, returns |-> TRUE, keep |-> NilEntry,
                            ret |-> [allowed |-> FALSE, quota |-> q, err |-> err]]
  IN IF key \notin DOMAIN policies
     THEN fail(st, NilEntry, ErrLimitPolicyNotFound)
     ELSE IF per \notin DOMAIN policies[key]
     THEN fail(st, NilEntry, ErrLimitNotFound)
     ELSE LET r == fetch(st, keyOf(a, per), policies[key][per], e0, t)
          IN IF r.err # NilErr
             THEN fail(r.st, NilEntry, r.err)
             ELSE IF Remaining(r.st.heap[r.q]) <= 0
             THEN fail(r.st, r.q, NilErr)
             ELSE [st |-> [r.st EXCEPT !.heap[r.q] = Consume(@)],
                   returns |-> FALSE, keep |-> r.q, ret |-> NilRet]

\* The iteration that takes a missing policy for a missing limit.
fetchStepWrongErr(st, a, per, e0, t) ==
  LET key == getKey(<<a[1], a[2]>>)
      fail(st1, q, err) == [st |-> st1, returns |-> TRUE, keep |-> NilEntry,
                            ret |-> [allowed |-> FALSE, quota |-> q, err |-> err]]
  IN IF key \notin DOMAIN policies
     THEN fail(st, NilEntry, ErrLimitNotFound)
     ELSE IF per \notin DOMAIN policies[key]
     THEN fail(st, NilEntry, ErrLimitNotFound)
     ELSE LET r == fetch(st, keyOf(a, per), policies[key][per], e0, t)
          IN IF r.err # NilErr
             THEN fail(r.st, NilEntry, r.err)
             ELSE IF Remaining(r.st.heap[r.q]) <= 0
             THEN fail(r.st, r.q, NilErr)
             ELSE [st |-> r.st, returns |-> FALSE, keep |-> r.q, ret |-> NilRet]

\* The iteration that returns without the error fetch gave it.
fetchStepDropsErr(st, a, per, e0, t) ==
  LET key == getKey(<<a[1], a[2]>>)
      fail(st1, q, err) == [st |-> st1, returns |-> TRUE, keep |-> NilEntry,
                            ret |-> [allowed |-> FALSE, quota |-> q, err |-> err]]
  IN IF key \notin DOMAIN policies
     THEN fail(st, NilEntry, ErrLimitPolicyNotFound)
     ELSE IF per \notin DOMAIN policies[key]
     THEN fail(st, NilEntry, ErrLimitNotFound)
     ELSE LET r == fetch(st, keyOf(a, per), policies[key][per], e0, t)
          IN IF r.err # NilErr
             THEN fail(r.st, NilEntry, NilErr)
             ELSE IF Remaining(r.st.heap[r.q]) <= 0
             THEN fail(r.st, r.q, NilErr)
             ELSE [st |-> r.st, returns |-> FALSE, keep |-> r.q, ret |-> NilRet]

\* The result of one iteration of `for per, id := range keys` for dimension per,
\* where e0 is what s.pool.Get() would return: the store, the named results, and
\* the quota to keep in quotas[per] (NilEntry when the iteration returns).
fetchStep(st, a, per, e0, t) ==
  LET key == getKey(<<a[1], a[2]>>)
      fail(st1, q, err) == [st |-> st1, returns |-> TRUE, keep |-> NilEntry,
                            ret |-> [allowed |-> FALSE, quota |-> q, err |-> err]]
  IN IF key \notin DOMAIN policies
     THEN fail(st, NilEntry, ErrLimitPolicyNotFound)
     ELSE IF per \notin DOMAIN policies[key]
     THEN fail(st, NilEntry, ErrLimitNotFound)
     ELSE LET r == fetch(st, keyOf(a, per), policies[key][per], e0, t)
          IN IF r.err # NilErr
             THEN fail(r.st, NilEntry, r.err)
             ELSE IF Remaining(r.st.heap[r.q]) <= 0
             THEN fail(r.st, r.q, NilErr)
             ELSE [st |-> r.st, returns |-> FALSE, keep |-> r.q, ret |-> NilRet]

\* One iteration of `for per, id := range keys` (a Go map: any order).
AllowFetch(p, per, e0) ==
  /\ pc[p] = "fetch"
  /\ per \in todo[p]
  /\ ~reclaimerHoldsMu(rpc)
  /\ LET r == fetchStep(s, args[p], per, e0, Now)
         qs == [quotas EXCEPT ![p][per] = r.keep]
         rt == [ret EXCEPT ![p] = r.ret]
     IN /\ quotas' = qs
        /\ ret' = rt
        /\ s' = collect(r.st, live(qs, rt))
        /\ todo' = [todo EXCEPT ![p] = IF r.returns THEN {} ELSE @ \ {per}]
        /\ pc' = [pc EXCEPT ![p] = IF r.returns THEN "done"
                                   ELSE IF todo[p] = {per} THEN "consume" ELSE "fetch"]
  /\ UNCHANGED <<sinceTick, tick, rpc, toExpire, wakeAt, args, ci, calls, hist, charged, last, fcall,
                 ctor, pol, polh, quo>>
  /\ swept' = sweptAfter(s, s', swept, 0)
  /\ top' = topAfter(s, s', top)
  /\ win' = winAfter(s, s', win)

\* The body of `for _, per := range allowOrder` for quota q, with `quota` the
\* quota reported so far: Consume, then keep the one with the fewest remaining.
consumeStep(hp, q, quota) ==
  LET hp1 == [hp EXCEPT ![q] = Consume(@)]
  IN [heap |-> hp1,
      quota |-> IF quota = NilEntry \/ Remaining(hp1[q]) < Remaining(hp1[quota])
                THEN q ELSE quota]

AllowConsume(p) ==
  /\ pc[p] = "consume"
  /\ LET per == allowOrder[ci[p]]
         q == quotas[p][per]
         r == consumeStep(s.heap, q, ret[p].quota)
         key == s.heap[q].key
     IN /\ s' = [s EXCEPT !.heap = r.heap]
        /\ ret' = [ret EXCEPT ![p].quota = r.quota]
        /\ charged' = [charged EXCEPT ![p] =
                         Append(@, [per |-> per, q |-> q, key |-> key,
                                    stored |-> key \in DOMAIN s.items /\ s.items[key] = q,
                                    before |-> s.heap[q].used, after |-> r.heap[q].used,
                                    others |-> {e \in EntryIds \ {q} : r.heap[e] # s.heap[e]}])]
  /\ ci' = [ci EXCEPT ![p] = @ + 1]
  /\ pc' = [pc EXCEPT ![p] = IF ci[p] = Len(allowOrder) THEN "done" ELSE "consume"]
  /\ UNCHANGED <<sinceTick, tick, rpc, toExpire, wakeAt, args, todo, quotas, calls, hist, last, fcall,
                 ctor, pol, polh, quo, swept, top, win>>

\* Return from Allow (RUnlock): the locals die.
AllowReturn(p) ==
  /\ pc[p] = "done"
  /\ pc' = [pc EXCEPT ![p] = "idle"]
  /\ args' = [args EXCEPT ![p] = NoArgs]
  /\ todo' = [todo EXCEPT ![p] = {}]
  /\ ci' = [ci EXCEPT ![p] = 1]
  /\ LET qs == [quotas EXCEPT ![p] = NoQuotas]
         rt == [ret EXCEPT ![p] = NilRet]
     IN /\ quotas' = qs
        /\ ret' = rt
        /\ s' = collect(s, live(qs, rt))
  /\ charged' = [charged EXCEPT ![p] = <<>>]
  /\ UNCHANGED <<sinceTick, tick, rpc, toExpire, wakeAt, calls, hist, last, fcall,
                 ctor, pol, polh, quo, swept, top, win>>

\* shutdown that also empties the store.
shutdownEmpties(st) ==
  [st |-> [st EXCEPT !.done = TRUE,
                     !.items = newExpirableStore.items,
                     !.buckets = newExpirableStore.buckets],
   err |-> NilErr]

\* shutdown(): s.cancelFunc(); return nil.
shutdown(st) == [st |-> [st EXCEPT !.done = TRUE], err |-> NilErr]

\* Limiter.Shutdown -> expirableStore.shutdown.
Shutdown ==
  /\ s' = shutdown(s).st
  /\ last' = NoLast
  /\ UNCHANGED <<sinceTick, tick, rpc, toExpire, wakeAt, pc, args, todo, quotas, ci, ret,
                 calls, hist, charged, fcall,
                 ctor, pol, polh, quo, swept, top, win>>

\* A client of the store alone: s.fetch(id, limit), the quota dropped at once.
StoreFetch(id, limit, e0) ==
  /\ fcall = NoCall
  /\ ~reclaimerHoldsMu(rpc)
  /\ LET r == fetch(s, id, limit, e0, Now)
         key == getKey(<<limit.Resource, limit.Action, limit.Per, id>>)
         full == key \notin DOMAIN s.items /\ Cardinality(DOMAIN s.items) >= s.maxSize
         expired == key \in DOMAIN s.items /\ Expired(s.heap[s.items[key]], Now)
     IN /\ s' = collect(r.st, live(quotas, ret))
        /\ last' = [op |-> "fetch", key |-> key, q |-> r.q, err |-> r.err,
                    full |-> full, stopped |-> s.done, expired |-> expired,
                    pre |-> IF full THEN shape(s) ELSE <<>>,
                    snap |-> IF s.done \/ expired THEN snapshot(s) ELSE <<>>]
  /\ UNCHANGED <<sinceTick, tick, rpc, toExpire, wakeAt, pc, args, todo, quotas, ci, ret,
                 calls, hist, charged, fcall,
                 ctor, pol, polh, quo>>
  /\ swept' = sweptAfter(s, s', swept, 0)
  /\ top' = topAfter(s, s', top)
  /\ win' = winAfter(s, s', win)

\* The same call in its two steps.  First the select on ctx.Done(), before the
\* lock: a stopped store returns ErrStopped, a running one lets the call on.
StoreFetchCheck(id, limit) ==
  /\ fcall = NoCall
  /\ IF s.done
     THEN /\ fcall' = NoCall
          /\ last' = [NoLast EXCEPT !.op = "fetch", !.err = ErrStopped, !.stopped = TRUE,
                        !.key = getKey(<<limit.Resource, limit.Action, limit.Per, id>>),
                        !.snap = snapshot(s)]
     ELSE /\ fcall' = <<id, limit>>
          /\ last' = NoLast
  /\ UNCHANGED <<sinceTick, tick, s, rpc, toExpire, wakeAt, pc, args, todo, quotas, ci, ret,
                 calls, hist, charged,
                 ctor, pol, polh, quo, swept, top, win>>

\* The critical section of a call that checks ctx.Done() again under the lock.
StoreFetchBodyRechecks(e0) ==
  /\ fcall # NoCall
  /\ ~reclaimerHoldsMu(rpc)
  /\ LET r == fetch(s, fcall[1], fcall[2], e0, Now)
         key == getKey(<<fcall[2].Resource, fcall[2].Action, fcall[2].Per, fcall[1]>>)
     IN /\ s' = collect(r.st, live(quotas, ret))
        /\ last' = [NoLast EXCEPT !.op = "body", !.key = key, !.q = r.q, !.err = r.err,
                                  !.stopped = s.done]
  /\ fcall' = NoCall
  /\ UNCHANGED <<sinceTick, tick, rpc, toExpire, wakeAt, pc, args, todo, quotas, ci, ret,
                 calls, hist, charged,
                 ctor, pol, polh, quo>>
  /\ swept' = sweptAfter(s, s', swept, 0)
  /\ top' = topAfter(s, s', top)
  /\ win' = winAfter(s, s', win)

\* Then s.mu.Lock() and the critical section, whatever has happened since.
StoreFetchBody(e0) ==
  /\ fcall # NoCall
  /\ ~reclaimerHoldsMu(rpc)
  /\ LET r == fetchLocked(s, fcall[1], fcall[2], e0, Now)
         key == getKey(<<fcall[2].Resource, fcall[2].Action, fcall[2].Per, fcall[1]>>)
     IN /\ s' = collect(r.st, live(quotas, ret))
        /\ last' = [NoLast EXCEPT !.op = "body", !.key = key, !.q = r.q, !.err = r.err,
                                  !.stopped = s.done]
  /\ fcall' = NoCall
  /\ UNCHANGED <<sinceTick, tick, rpc, toExpire, wakeAt, pc, args, todo, quotas, ci, ret,
                 calls, hist, charged,
                 ctor, pol, polh, quo>>
  /\ swept' = sweptAfter(s, s', swept, 0)
  /\ top' = topAfter(s, s', top)
  /\ win' = winAfter(s, s', win)

----
\* The reclaimer goroutine: deleteExpired and emptyExpiredBucket.

\* case <-ticker.C: emptyExpiredBucket up to its time.Sleep, or to its end when
\* the bucket has expired.
SweepBegin ==
  /\ rpc = "wait"
  /\ tick
  /\ tick' = FALSE
  /\ LET b == s.nextBucketToExpire
         st1 == [s EXCEPT !.nextBucketToExpire = (b + 1) % s.numberBuckets]
         timeToExpire == s.buckets[b].expiresAt - Now
     IN /\ toExpire' = b
        /\ IF timeToExpire > 0
           THEN /\ s' = st1
                /\ rpc' = "sleep"
                /\ wakeAt' = Now + timeToExpire
           ELSE /\ s' = collect(emptyBucket(st1, b), live(quotas, ret))
                /\ rpc' = "wait"
                /\ UNCHANGED wakeAt
  /\ last' = NoLast
  /\ UNCHANGED <<sinceTick, pc, args, todo, quotas, ci, ret, calls, hist, charged, fcall,
                 ctor, pol, polh, quo>>
  /\ swept' = sweptAfter(s, s', swept, 1)
  /\ top' = topAfter(s, s', top)
  /\ win' = winAfter(s, s', win)

\* time.Sleep(timeToExpire) is over: lock again and empty the bucket.
SweepWake ==
  /\ rpc = "sleep"
  /\ Now >= wakeAt
  /\ s' = collect(emptyBucket(s, toExpire), live(quotas, ret))
  /\ rpc' = "wait"
  /\ last' = NoLast
  /\ UNCHANGED <<sinceTick, tick, toExpire, wakeAt, pc, args, todo, quotas, ci, ret,
                 calls, hist, charged, fcall,
                 ctor, pol, polh, quo>>
  /\ swept' = sweptAfter(s, s', swept, 0)
  /\ top' = topAfter(s, s', top)
  /\ win' = winAfter(s, s', win)

\* A loop without the case of ctx.Done(): the goroutine waits on.
ReclaimerStays ==
  /\ rpc = "wait"
  /\ s.done
  /\ last' = NoLast
  /\ UNCHANGED <<sinceTick, tick, s, rpc, toExpire, wakeAt, pc, args, todo, quotas, ci, ret,
                 calls, hist, charged, fcall,
                 ctor, pol, polh, quo, swept, top, win>>

\* case <-s.ctx.Done(): return (and the deferred ticker.Stop).
ReclaimerExit ==
  /\ rpc = "wait"
  /\ s.done
  /\ rpc' = "exit"
  /\ tick' = FALSE
  /\ last' = NoLast
  /\ UNCHANGED <<sinceTick, s, toExpire, wakeAt, pc, args, todo, quotas, ci, ret,
                 calls, hist, charged, fcall,
                 ctor, pol, polh, quo, swept, top, win>>

\* An instant, seen one unit of time later.
later(x) == IF x > 0 THEN x - 1 ELSE 0

\* The history win one unit of time later: the windows that close are dropped.
winLater(wn) ==
  LET keep == {k \in DOMAIN wn.q : wn.q[k].expiresAt > 1}
  IN [wn EXCEPT !.q = [k \in keep |-> [wn.q[k] EXCEPT !.expiresAt = later(@)]]]

\* The least period of the limited limits: while less time than this has passed since a
\* quota was made, the quota has not expired.
minPeriod ==
  LET ls == {l \in Limits : ~l.Unlimited}
  IN CHOOSE x \in {l.Period : l \in ls} : \A l \in ls : x <= l.Period

\* The clock advances by one unit; the ticker fires every bucketTTL and keeps
\* one tick in its channel.
Tick ==
  /\ sinceTick' = (sinceTick + 1) % s.bucketTTL
  /\ tick' = IF rpc # "exit" /\ sinceTick' = 0 THEN TRUE ELSE tick
  /\ s' = [s EXCEPT !.heap = [e \in DOMAIN @ |-> [@[e] EXCEPT !.expiresAt = later(@)]],
                    !.buckets = [b \in DOMAIN @ |-> [@[b] EXCEPT !.expiresAt = later(@)]]]
  /\ wakeAt' = later(wakeAt)
  /\ hist' = IF calls > 0 /\ hist.age < minPeriod THEN [hist EXCEPT !.age = @ + 1] ELSE hist
  /\ last' = NoLast
  /\ UNCHANGED <<rpc, toExpire, pc, args, todo, quotas, ci, ret, calls, charged, fcall,
                 ctor, pol, polh, quo, swept, top>>
  /\ win' = winLater(win)

----
\* Construction: NewLimiter and newExpirableStore as calls.

runVars == <<sinceTick, tick, s, rpc, toExpire, wakeAt, pc, args, todo, quotas, ci, ret,
             calls, hist, charged, last, fcall, swept, top, win>>

NewLimiterCall ==
  /\ ctor.op = "NewLimiter"
  /\ ~ctor.called
  /\ ctor' = [ctor EXCEPT !.called = TRUE,
                          !.out = NewLimiter(ctor.limits, ctor.maxSize, ctor.n)]
  /\ UNCHANGED <<runVars, pol, polh, quo>>

NewStoreCall ==
  /\ ctor.op = "newExpirableStore"
  /\ ~ctor.called
  /\ LET r == newStore(ctor.maxSize, ctor.ttl, ctor.n)
     IN ctor' = [ctor EXCEPT !.called = TRUE,
                             !.out = [NoLimiter(r.err) EXCEPT !.built = (r.err = NilErr),
                                                              !.maxEntryTTL = ctor.ttl,
                                                              !.st = r.st,
                                                              !.reclaimer = r.reclaimer]]
  /\ UNCHANGED <<runVars, pol, polh, quo>>

----
\* A limitPolicy that its limits are added to, and the limiter that holds it
\* once it is complete.

PolicyAddCall(l) ==
  /\ pol # NoPolicy
  /\ LET r == policyAdd(pol, l)
     IN /\ pol' = r.p
        /\ polh' = [op |-> "add", arg |-> l, err |-> r.err, pre |-> pol, header |-> EmptyMap]
  /\ UNCHANGED <<runVars, ctor, quo>>

\* SetPolicyHeader on a fresh http.Header, of the limiter whose policies are
\* pol alone; NewLimiter builds a limiter only of policies that validate.
SetPolicyHeaderCall(resource, action) ==
  /\ pol # NoPolicy
  /\ validate(pol) = NilErr
  /\ LET pols == [k \in {getKey(<<pol.resource, pol.action>>)} |-> pol]
         r == SetPolicyHeader(pols, resource, action, EmptyMap)
     IN polh' = [op |-> "SetPolicyHeader",
                 arg |-> [NilLimit EXCEPT !.Resource = resource, !.Action = action],
                 err |-> r.err, pre |-> pol, header |-> r.header]
  /\ UNCHANGED <<runVars, ctor, pol, quo>>

Caller(p) ==
  \/ \E req \in Requests : AllowBegin(p, req)
  \/ \E per \in requiredLimitPer :
       \E e0 \in PoolGet(s, getKey(<<args[p][1], args[p][2], per, keyOf(args[p], per)>>)) :
          AllowFetch(p, per, e0)
  \/ AllowConsume(p)
  \/ AllowReturn(p)

StoreClient ==
  \E x \in FetchInputs :
     \E e0 \in PoolGet(s, getKey(<<x[2].Resource, x[2].Action, x[2].Per, x[1]>>)) :
        StoreFetch(x[1], x[2], e0)

\* Allow calls that do not overlap, the reclaimer and the clock.
Next == Caller(1) \/ SweepBegin \/ SweepWake \/ Tick

Spec == Init /\ [][Next]_vars

\* Allow calls of two goroutines that overlap, and Shutdown, at one instant.
NextRace == (\E p \in Procs : Caller(p)) \/ Shutdown \/ ReclaimerExit

SpecRace == Init /\ [][NextRace]_vars

\* The fetches of a client whose identity no caller of Allow has.
ForeignInputs == {x \in FetchInputs : x[1] = "i2"}

\* s.fetch(id, limit) of such a client while an Allow call stands between its
\* fetches and the end of its Consume loop, the quota dropped at once.
ForeignFetch(id, limit, e0) ==
  /\ \E p \in Procs : pc[p] = "consume"
  /\ ~reclaimerHoldsMu(rpc)
  /\ s' = collect(fetch(s, id, limit, e0, Now).st, live(quotas, ret))
  /\ last' = NoLast
  /\ UNCHANGED <<sinceTick, tick, rpc, toExpire, wakeAt, pc, args, todo, quotas, ci, ret,
                 calls, hist, charged, fcall,
                 ctor, pol, polh, quo>>
  /\ swept' = sweptAfter(s, s', swept, 0)
  /\ top' = topAfter(s, s', top)
  /\ win' = winAfter(s, s', win)

ForeignClient ==
  \E x \in ForeignInputs :
     \E e0 \in PoolGet(s, getKey(<<x[2].Resource, x[2].Action, x[2].Per, x[1]>>)) :
        ForeignFetch(x[1], x[2], e0)

\* The first Allow call of a behaviour.
FirstCaller ==
  \/ calls = 0 /\ \E req \in Requests : AllowBegin(1, req)
  \/ \E per \in requiredLimitPer :
       \E e0 \in PoolGet(s, getKey(<<args[1][1], args[1][2], per, keyOf(args[1], per)>>)) :
          AllowFetch(1, per, e0)
  \/ AllowConsume(1)
  \/ AllowReturn(1)

\* One Allow call, a client of the store with an identity of its own, the
\* reclaimer and the clock.
NextReuse == FirstCaller \/ ForeignClient \/ SweepBegin \/ SweepWake \/ Tick

SpecReuse == Init /\ [][NextReuse]_vars

\* The store alone, with the history of its sweeps kept.
InitBuckets ==
  /\ InitLimiter
  /\ swept = [NotSwept EXCEPT !.on = TRUE]
  /\ top = {}
  /\ win = NoWin
  /\ ctor = NoCtor
  /\ pol = NoPolicy
  /\ polh = NoPolh
  /\ quo = NoQuo

\* The store alone: its clients, the reclaimer, the clock and shutdown.
NextStore == StoreClient \/ SweepBegin \/ SweepWake \/ ReclaimerExit \/ Shutdown \/ Tick

SpecStore == Init /\ [][NextStore]_vars

SpecBuckets == InitBuckets /\ [][NextStore]_vars

\* The store with its scheduling: time passes, the reclaimer goroutine is
\* scheduled whenever it can run, and a select with both of its cases ready
\* takes each of them sooner or later.
\* The requests of a caller that asks for every kind of policy: all limited,
\* none at all, limited with one Unlimited dimension, all Unlimited.
PolicyRequests ==
  { <<"r", "a", "i1", "t1">>, <<"x", "a", "i1", "t1">>,
    <<"m", "a", "i1", "t1">>, <<"u", "a", "i1", "t1">> }

PolicyCaller ==
  \/ \E req \in PolicyRequests : AllowBegin(1, req)
  \/ \E per \in requiredLimitPer :
       \E e0 \in PoolGet(s, getKey(<<args[1][1], args[1][2], per, keyOf(args[1], per)>>)) :
          AllowFetch(1, per, e0)
  \/ AllowConsume(1)
  \/ AllowReturn(1)

\* Allow calls for any policy, and Shutdown, at one instant.
NextPolicy == PolicyCaller \/ Shutdown \/ ReclaimerExit

SpecPolicy == Init /\ [][NextPolicy]_vars

\* A client of the store whose fetch takes two steps, so that Shutdown, the
\* reclaimer and the clock can come between them.
InflightClient ==
  \/ \E x \in FetchInputs : StoreFetchCheck(x[1], x[2])
  \/ /\ fcall # NoCall
     /\ \E e0 \in PoolGet(s, getKey(<<fcall[2].Resource, fcall[2].Action, fcall[2].Per,
                                      fcall[1]>>)) :
          StoreFetchBody(e0)

NextInflight ==
  InflightClient \/ Shutdown \/ SweepBegin \/ SweepWake \/ ReclaimerExit \/ Tick

SpecInflight == Init /\ [][NextInflight]_vars

\* The lists of limits NewLimiter is called with have at most MaxLimits limits,
\* each one of CtorLimits: the limits of a policy, an Unlimited and an invalid
\* limit for dimensions the policy has, and the limits of an Unlimited policy.
MaxLimits == 4

CtorLimits ==
  { Limit("r", "a", LimitPerTotal, 2, 2),
    Limit("r", "a", LimitPerIPAddress, 1, 1),
    Limit("r", "a", LimitPerAuthToken, 1, 1),
    Unlimited("r", "a", LimitPerAuthToken),
    Limit("r", "a", LimitPerIPAddress, 0, 1),
    Unlimited("u", "a", LimitPerTotal),
    Unlimited("u", "a", LimitPerIPAddress),
    Unlimited("u", "a", LimitPerAuthToken) }

\* The lists of at most len limits.
LimitLists(len) == UNION {[1..k -> CtorLimits] : k \in 0..len}

CtorInputs(len) ==
  {[NoCtor EXCEPT !.op = "NewLimiter", !.limits = x[1], !.maxSize = x[2], !.n = x[3]] :
      x \in LimitLists(len) \X {0, 1} \X {0, 1, 2, 4}}
  \cup
  {[NoCtor EXCEPT !.op = "newExpirableStore", !.maxSize = x[1], !.ttl = x[2], !.n = x[3]] :
      x \in {-1, 0, 1} \X {-1, 0, 1, 2} \X {-1, 0, 1, 2, 4}}

InitNew ==
  /\ InitRun
  /\ ctor \in CtorInputs(MaxLimits)
  /\ pol = NoPolicy
  /\ polh = NoPolh
  /\ quo = NoQuo

NextNew == NewLimiterCall \/ NewStoreCall

\* Calls of the constructors, each on arguments of its own.
SpecNew == InitNew /\ [][NextNew]_vars

\* The limits add is called with on the policy of ("r", "a"): for each
\* dimension two limited ones and an Unlimited, and limits add must refuse.
PolLimits ==
  UNION {{Limit("r", "a", per, 2, 2), Limit("r", "a", per, 1, 3), Unlimited("r", "a", per)} :
            per \in requiredLimitPer}
  \cup { Limit("r", "a", LimitPerTotal, 0, 1), Limit("r", "a", LimitPerTotal, 1, 0),
         Limit("r", "a", "user", 1, 1),
         [Unlimited("r", "a", LimitPerTotal) EXCEPT !.MaxRequests = 1],
         Limit("q", "a", LimitPerTotal, 1, 1), Limit("r", "b", LimitPerTotal, 1, 1) }

InitPol ==
  /\ InitRun
  /\ ctor = NoCtor
  /\ pol = newLimitPolicy("r", "a")
  /\ polh = NoPolh
  /\ quo = NoQuo

NextPol ==
  \/ \E l \in PolLimits : PolicyAddCall(l)
  \/ \E res \in {"r", "x"} : SetPolicyHeaderCall(res, "a")

\* Calls of add on one policy, in any order, and of SetPolicyHeader.
SpecPol == InitPol /\ [][NextPol]_vars

\* A Quota of any MaxRequests and any used, as TestQuotaRemaining sets them.
RemainingCall ==
  /\ quo.q # ZeroEntry
  /\ quo' = [quo EXCEPT !.op = "Remaining", !.out = Remaining(quo.q)]
  /\ UNCHANGED <<runVars, ctor, pol, polh>>

ConsumeCall ==
  /\ quo.q # ZeroEntry
  /\ quo.q.used < MaxUint
  /\ quo' = [quo EXCEPT !.q = Consume(@), !.op = "Consume"]
  /\ UNCHANGED <<runVars, ctor, pol, polh>>

InitQuota ==
  /\ InitRun
  /\ ctor = NoCtor
  /\ pol = NoPolicy
  /\ polh = NoPolh
  /\ \E maxRequests \in 0..MaxUint, used \in 0..MaxUint :
        quo = [NoQuo EXCEPT
                 !.q = [reset(ZeroEntry, Limit("r", "a", LimitPerTotal, maxRequests, 2), Now)
                          EXCEPT !.used = used]]

NextQuota == RemainingCall \/ ConsumeCall

\* Remaining and Consume on one Quota.
SpecQuota == InitQuota /\ [][NextQuota]_vars

LiveInputs == {x \in FetchInputs : \E r \in Requests : x[1] = keyOf(r, x[2].Per)}

LiveClient ==
  \E x \in LiveInputs :
     \E e0 \in PoolGet(s, getKey(<<x[2].Resource, x[2].Action, x[2].Per, x[1]>>)) :
        StoreFetch(x[1], x[2], e0)

NextLive == LiveClient \/ SweepBegin \/ SweepWake \/ ReclaimerExit \/ Shutdown \/ Tick

SpecLive ==
  /\ Init /\ [][NextLive]_vars
  /\ WF_vars(Tick) /\ WF_vars(SweepBegin) /\ WF_vars(SweepWake)
  /\ SF_vars(ReclaimerExit)

----
\* Helpers of the properties.

\* The position of a dimension in allowOrder.
orderOf(per) == CHOOSE i \in DOMAIN allowOrder : allowOrder[i] = per

\* The key the store holds the quota of dimension per of request a under.
requestKey(a, per) == getKey(<<a[1], a[2], per, keyOf(a, per)>>)

\* m, the least MaxRequests of the limited limits.
minMax ==
  LET ls == {l \in Limits : ~l.Unlimited}
  IN CHOOSE x \in {l.MaxRequests : l \in ls} : \A l \in ls : x <= l.MaxRequests

\* The entries the store holds.
stored(st) == {st.items[k] : k \in DOMAIN st.items}

RECURSIVE bucketSizes(_, _)
bucketSizes(st, bs) ==
  IF bs = {} THEN 0
  ELSE LET b == CHOOSE x \in bs : TRUE
       IN Cardinality(DOMAIN st.buckets[b].entries) + bucketSizes(st, bs \ {b})

denied(p) == pc[p] = "done" /\ ~ret[p].allowed /\ ret[p].err = NilErr
granted(p) == pc[p] = "done" /\ ret[p].allowed /\ ret[p].err = NilErr

----
\* C1: in every reachable state, whatever the interleaving of concurrent Allow
\* calls, every stored quota has used <= limit.MaxRequests.
C1_UsedWithinMax ==
  \A k \in DOMAIN s.items :
     s.heap[s.items[k]].used <= s.heap[s.items[k]].limit.MaxRequests

C4_ChargesEachOnce ==
  \A p \in Procs :
     granted(p) =>
        /\ Len(charged[p]) = Len(allowOrder)
        /\ \A i \in DOMAIN charged[p] :
              /\ charged[p][i].per = allowOrder[i]
              /\ charged[p][i].key = requestKey(args[p], allowOrder[i])
              /\ charged[p][i].after = charged[p][i].before + 1
              /\ charged[p][i].others = {}
              /\ \A j \in DOMAIN charged[p] : j # i => charged[p][j].q # charged[p][i].q

\* C5: when Allow allows, the quota it reports has the least Remaining, after
\* the consumption, of the quotas consumed, and of those with the least it is
\* the first in the order total, ip address, auth token.
C5_ReportsLeastRemaining ==
  \A p \in Procs :
     granted(p) =>
        LET rem(per) == Remaining(s.heap[quotas[p][per]])
            least == CHOOSE per \in requiredLimitPer :
                       /\ \A o \in requiredLimitPer : rem(per) <= rem(o)
                       /\ \A o \in requiredLimitPer :
                             rem(o) = rem(per) => orderOf(per) <= orderOf(o)
        IN ret[p].quota = quotas[p][least]

\* C6: an Allow call fetches the dimensions in the order total, ip address, auth
\* token: when it denies, it has fetched every dimension before the one it
\* reports (none of them was exhausted) and no dimension after it.
C6_FetchesInOrder ==
  \A p \in Procs :
     denied(p) =>
        \A per \in requiredLimitPer :
           quotas[p][per] # NilEntry <=>
              orderOf(per) < orderOf(s.heap[ret[p].quota].limit.Per)

\* C7: in every reachable state of the store the number of keys is at most
\* maxSize.
C7_SizeWithinMax == Cardinality(DOMAIN s.items) <= s.maxSize

C7_Witness ==
  /\ Cardinality(DOMAIN s.items) = s.maxSize
  /\ last.op = "fetch" /\ last.err.kind = "ErrLimiterFull"

\* C8: between critical sections items and the buckets agree: every key of
\* items is in exactly one bucket, buckets[entry.bucket], with the same entry;
\* no bucket holds a key that items lacks; so |items| is the sum of the bucket
\* sizes.
C8_Coherent ==
  /\ \A k \in DOMAIN s.items :
        \A b \in DOMAIN s.buckets :
           /\ k \in DOMAIN s.buckets[b].entries <=> b = s.heap[s.items[k]].bucket
           /\ k \in DOMAIN s.buckets[b].entries => s.buckets[b].entries[k] = s.items[k]
  /\ \A b \in DOMAIN s.buckets : DOMAIN s.buckets[b].entries \subseteq DOMAIN s.items
  /\ Cardinality(DOMAIN s.items) = bucketSizes(s, DOMAIN s.buckets)

C8_Witness ==
  /\ last.op = "fetch" /\ last.err = NilErr
  /\ \A b \in DOMAIN s.buckets : s.buckets[b].entries # EmptyMap
  /\ s.nextBucketToExpire # 0

\* C9 as stated: a fetch for a key the store lacks while |items| >= maxSize
\* fails with ErrLimiterFull, returns no quota and leaves items, every bucket
\* and nextBucketToExpire as they were.
C9_FullFetchFails ==
  (last.op = "fetch" /\ last.full) =>
     /\ last.err.kind = "ErrLimiterFull"
     /\ last.q = NilEntry
     /\ last.pre = shape(s)

\* C9 amended: the same of a store that has not been shut down.
C9_FullFetchFailsUnlessStopped ==
  (last.op = "fetch" /\ last.full /\ ~last.stopped) =>
     /\ last.err.kind = "ErrLimiterFull"
     /\ last.q = NilEntry
     /\ last.pre = shape(s)

C9_Witness ==
  /\ last.op = "fetch" /\ last.full /\ ~last.stopped
  /\ last.err.kind = "ErrLimiterFull"
  /\ Cardinality(DOMAIN s.items) = s.maxSize

\* C10: every ErrLimiterFull that fetch returns carries RetryIn = bucketTTL.
C10_RetryInIsBucketTTL ==
  (last.op = "fetch" /\ last.err.kind = "ErrLimiterFull") => last.err.RetryIn = s.bucketTTL

\* C11: while the store is full, a fetch iteration of Allow for a key the
\* store holds is decided as in a store with room: it never fails (no
\* ErrLimiterFull), it denies with that key's quota exactly when the quota is
\* exhausted in its current window, else it keeps that quota for consumption;
\* and it admits and drops no key.
C11_FullStoreServesKnownKeys ==
  \A p \in Procs : \A per \in requiredLimitPer :
     LET key == requestKey(args[p], per)
     IN (/\ pc[p] = "fetch" /\ per \in todo[p] /\ ~s.done
         /\ key \in DOMAIN s.items
         /\ Cardinality(DOMAIN s.items) = s.maxSize) =>
           \A e0 \in PoolGet(s, key) :
              LET r == fetchStep(s, args[p], per, e0, Now)
                  q == s.items[key]
                  used == IF s.heap[q].expiresAt <= Now THEN 0 ELSE s.heap[q].used
                  exhausted == used >= s.heap[q].limit.MaxRequests
              IN /\ r.ret.err = NilErr
                 /\ r.returns <=> exhausted
                 /\ r.returns => ~r.ret.allowed /\ r.ret.quota = q
                 /\ ~r.returns => r.keep = q
                 /\ r.st.items = s.items

C11_Witness ==
  /\ pc[1] = "fetch" /\ calls = 2
  /\ Cardinality(DOMAIN s.items) = s.maxSize
  /\ \A per \in requiredLimitPer : requestKey(args[1], per) \in DOMAIN s.items
  /\ quotas[1][LimitPerTotal] # NilEntry
  /\ s.items[requestKey(args[1], LimitPerTotal)] = quotas[1][LimitPerTotal]
  /\ s.heap[quotas[1][LimitPerTotal]].used = 1

\* C12: a key in the store that is not fetched again is eventually removed from
\* items and from every bucket by the reclaimer, unless the store is shut down.
C12_UnvisitedKeyIsReclaimed ==
  \A per \in requiredLimitPer : \A r \in Requests :
     (requestKey(r, per) \in DOMAIN s.items)
       ~> (\/ /\ requestKey(r, per) \notin DOMAIN s.items
              /\ \A b \in DOMAIN s.buckets :
                    requestKey(r, per) \notin DOMAIN s.buckets[b].entries
           \/ last.op = "fetch" /\ last.key = requestKey(r, per)
           \/ s.done)

\* A full store that is not shut down and has not been fetched from since the
\* clock moved; the reclaimer has slept until a bucket that holds keys expired.
C12_Witness ==
  /\ ~s.done /\ last = NoLast
  /\ Cardinality(DOMAIN s.items) = s.maxSize
  /\ rpc = "sleep" /\ Now >= wakeAt
  /\ s.buckets[toExpire].entries # EmptyMap

\* C13: a fetch for an (id, limit) whose key the store holds (the entry of an
\* earlier fetch, not swept since) with a quota that has not expired returns
\* that same quota and changes nothing: not its used, its expiresAt or its
\* bucket, nor items.
C13_RefetchReturnsSame ==
  \A x \in FetchInputs :
     LET key == getKey(<<x[2].Resource, x[2].Action, x[2].Per, x[1]>>)
     IN (key \in DOMAIN s.items /\ ~s.done /\ ~Expired(s.heap[s.items[key]], Now)) =>
           \A e0 \in PoolGet(s, key) :
              fetch(s, x[1], x[2], e0, Now) = [st |-> s, q |-> s.items[key], err |-> NilErr]

C13_Witness ==
  /\ pc[1] = "fetch" /\ calls = 2
  /\ quotas[1][LimitPerTotal] # NilEntry
  /\ requestKey(args[1], LimitPerTotal) \in DOMAIN s.items
  /\ s.items[requestKey(args[1], LimitPerTotal)] = quotas[1][LimitPerTotal]
  /\ s.heap[quotas[1][LimitPerTotal]].used = 1
  /\ s.heap[quotas[1][LimitPerTotal]].expiresAt = 1

\* What C14 says of the fetch just made: it succeeded with the quota items
\* held, items is as it was, the quota has used = 0 and expiresAt = now +
\* limit.Period, and its key is in the bucket chosen for the new window and in no
\* other.
expiredFetchReset ==
  LET key == last.key
      q == last.q
      b == ((s.heap[q].limit.Period \div s.bucketTTL) + s.nextBucketToExpire) % s.numberBuckets
  IN /\ last.err = NilErr
     /\ q # NilEntry
     /\ q = last.snap[1][key]
     /\ s.items = last.snap[1]
     /\ s.nextBucketToExpire = last.snap[3]
     /\ s.heap[q].used = 0
     /\ s.heap[q].expiresAt = Now + s.heap[q].limit.Period
     /\ s.heap[q].limit = last.snap[4][key].limit
     /\ s.heap[q].bucket = b
     /\ \A c \in DOMAIN s.buckets :
           /\ key \in DOMAIN s.buckets[c].entries <=> c = b
           /\ \A k \in DOMAIN s.buckets[c].entries \ {key} :
                 /\ k \in DOMAIN last.snap[2][c].entries
                 /\ s.buckets[c].entries[k] = last.snap[2][c].entries[k]
           /\ DOMAIN last.snap[2][c].entries \ {key} \subseteq DOMAIN s.buckets[c].entries
     /\ s.buckets[b].entries[key] = q

\* C14 as stated: a fetch for a key the store holds with an Expired quota
\* succeeds whatever the occupancy; it takes the entry out of its old bucket,
\* sets used to 0 and expiresAt to now + limit.Period and puts it in the bucket
\* of the new window, |items| unchanged and the entry in exactly one bucket.
C14_ExpiredFetchResets ==
  (last.op = "fetch" /\ last.expired) => expiredFetchReset

\* C14 amended: the same of a store that has not been shut down.
C14_ExpiredFetchResetsUnlessStopped ==
  (last.op = "fetch" /\ last.expired /\ ~last.stopped) => expiredFetchReset

\* An expired quota of a full store was fetched and moved to another bucket.
C14_Witness ==
  /\ last.op = "fetch" /\ last.expired /\ ~last.stopped
  /\ Cardinality(DOMAIN s.items) = s.maxSize
  /\ s.heap[last.q].bucket # last.snap[4][last.key].bucket

\* C15: a fetch that starts after shutdown has returned fails with ErrStopped,
\* returns no quota, and leaves items, the buckets, nextBucketToExpire and the
\* quotas of the store as they were.
C15_FetchAfterShutdownStopped ==
  (last.op = "fetch" /\ last.stopped) =>
     /\ last.err = ErrStopped
     /\ last.q = NilEntry
     /\ last.snap = snapshot(s)

\* After shutdown, a fetch for a key the store lacks, with room for it, and
\* with an expired quota in the store.
C15_Witness ==
  /\ last.op = "fetch" /\ last.stopped /\ last.err = ErrStopped
  /\ last.key \notin DOMAIN s.items
  /\ Cardinality(DOMAIN s.items) < s.maxSize
  /\ \E k \in DOMAIN s.items : Expired(s.heap[s.items[k]], Now)

\* The first iteration of Allow's fetch loop, run by p on a stopped store, ends
\* the call with (false, nil, ErrStopped), nothing consumed and the store as it was.
stoppedCall(p) ==
  /\ pc'[p] = "done"
  /\ ret'[p] = [allowed |-> FALSE, quota |-> NilEntry, err |-> ErrStopped]
  /\ charged'[p] = <<>>
  /\ s' = s

C19_AllUnlimitedAllowed ==
  \A p \in Procs :
     (/\ pc[p] = "done"
      /\ getKey(<<args[p][1], args[p][2]>>) \in DOMAIN policies
      /\ \A per \in requiredLimitPer : policies[getKey(<<args[p][1], args[p][2]>>)][per].Unlimited)
       => /\ ret[p] = [allowed |-> TRUE, quota |-> NilEntry, err |-> NilErr]
          /\ \A per \in requiredLimitPer : requestKey(args[p], per) \notin DOMAIN s.items

\* C20: for a policy with limited and Unlimited dimensions, no quota of an
\* Unlimited dimension is in the store, is held by the call or is charged, and
\* the quota a call reports, allowed or denied, is of a limited dimension.
C20_UnlimitedDimensionIgnored ==
  \A p \in Procs :
     LET pk == getKey(<<args[p][1], args[p][2]>>)
     IN (/\ pc[p] # "idle"
         /\ pk \in DOMAIN policies
         /\ \E per \in requiredLimitPer : policies[pk][per].Unlimited
         /\ \E per \in requiredLimitPer : ~policies[pk][per].Unlimited)
          => \A per \in {x \in requiredLimitPer : policies[pk][x].Unlimited} :
                /\ requestKey(args[p], per) \notin DOMAIN s.items
                /\ quotas[p][per] = NilEntry
                /\ \A i \in DOMAIN charged[p] : charged[p][i].per # per
                /\ ret[p].quota # NilEntry => s.heap[ret[p].quota].key # requestKey(args[p], per)

\* C17: once shutdown has been called the reclaimer goroutine leaves its loop;
\* from then on it stays out, and items, the bucket entries and
\* nextBucketToExpire never change again; shutdown on a stopped store returns
\* nil and leaves the store as it is.
C17_ReclaimerTerminates ==
  /\ s.done ~> (rpc = "exit")
  /\ [][rpc = "exit" =>
          /\ rpc' = "exit"
          /\ s'.items = s.items
          /\ s'.nextBucketToExpire = s.nextBucketToExpire
          /\ \A b \in DOMAIN s.buckets : s'.buckets[b].entries = s.buckets[b].entries]_vars
  /\ [](s.done => shutdown(s) = [st |-> s, err |-> NilErr])

\* The reclaimer has left its loop while the store holds a quota that has
\* expired, in an expired bucket that a sweep would empty.
C17_Witness ==
  /\ rpc = "exit" /\ s.done
  /\ \E k \in DOMAIN s.items :
        /\ Expired(s.heap[s.items[k]], Now)
        /\ s.buckets[s.heap[s.items[k]].bucket].expiresAt <= Now

\* C18: a fetch that passed the check of ctx.Done() and reaches its critical
\* section after shutdown never returns ErrStopped: it returns the quota items
\* holds for its key, or ErrLimiterFull and no quota when the key is new and
\* the store full; items and the buckets agree afterwards.
C18_InflightFetchCompletes ==
  (last.op = "body" /\ last.stopped) =>
     /\ last.err.kind \in {"nil", "ErrLimiterFull"}
     /\ last.err = NilErr =>
           /\ last.q # NilEntry
           /\ last.key \in DOMAIN s.items
           /\ s.items[last.key] = last.q
           /\ ~Expired(s.heap[last.q], Now)
     /\ last.err # NilErr =>
           /\ last.q = NilEntry
           /\ last.key \notin DOMAIN s.items
           /\ Cardinality(DOMAIN s.items) = s.maxSize
     /\ C8_Coherent

\* A fetch overtaken by shutdown has admitted the key that filled the store.
C18_Witness ==
  /\ last.op = "body" /\ last.stopped /\ last.err = NilErr
  /\ Cardinality(DOMAIN s.items) = s.maxSize
  /\ s.heap[last.q].used = 0

groupsOf(limits) == {<<limits[i].Resource, limits[i].Action>> : i \in DOMAIN limits}

countOf(limits, g, per) ==
  Cardinality({i \in DOMAIN limits :
                 <<limits[i].Resource, limits[i].Action>> = g /\ limits[i].Per = per})

hasDuplicate(limits) ==
  \E g \in groupsOf(limits) : \E per \in requiredLimitPer : countOf(limits, g, per) > 1

hasIncomplete(limits) ==
  \E g \in groupsOf(limits) : \E per \in requiredLimitPer : countOf(limits, g, per) = 0

\* What C22 says of a finished call NewLimiter(limits, ...).
groupsDecide(limits, out) ==
  /\ out.err = NilErr =>
        \A g \in groupsOf(limits) : \A per \in requiredLimitPer : countOf(limits, g, per) = 1
  /\ hasDuplicate(limits) => out.err = ErrDuplicateLimit
  /\ (hasIncomplete(limits) /\ ~hasDuplicate(limits)) => out.err = ErrInvalidLimitPolicy

\* C22 as stated: NewLimiter succeeds only if every (resource, action) group has
\* exactly one limit for each of total, ip-address and auth-token; a duplicate
\* (resource, action, per) gives ErrDuplicateLimit, an incomplete group without
\* a duplicate gives ErrInvalidLimitPolicy.
C22_GroupsDecideConstruction ==
  (ctor.op = "NewLimiter" /\ ctor.called) => groupsDecide(ctor.limits, ctor.out)

\* C22 amended: the same of a list whose limits are each valid.
C22_GroupsDecideConstructionOfValid ==
  (/\ ctor.op = "NewLimiter" /\ ctor.called
   /\ \A i \in DOMAIN ctor.limits : IsValid(ctor.limits[i]))
     => groupsDecide(ctor.limits, ctor.out)

\* NewLimiter has refused valid limits that make one complete group and one
\* that lacks two dimensions, with a maxSize and a number of buckets it accepts.
C22_Witness ==
  /\ ctor.op = "NewLimiter" /\ ctor.called
  /\ \A i \in DOMAIN ctor.limits : IsValid(ctor.limits[i])
  /\ Cardinality(groupsOf(ctor.limits)) = 2
  /\ \E g \in groupsOf(ctor.limits) :
        \A per \in requiredLimitPer : countOf(ctor.limits, g, per) = 1
  /\ ctor.maxSize > 0 /\ ctor.n = 2
  /\ ctor.out.err = ErrInvalidLimitPolicy

\* The error the tests of NewLimiter expect for limits that are all Unlimited
\* (limiter_test.go); errors.go does not declare it.
ErrAllUnlimited == [kind |-> "ErrAllUnlimited", RetryIn |-> 0]

\* C23: NewLimiter called with valid limits that are all Unlimited and make
\* complete policies fails with ErrAllUnlimited, and builds no store and no
\* reclaimer.
C23_AllUnlimitedRefused ==
  (/\ ctor.op = "NewLimiter" /\ ctor.called
   /\ Len(ctor.limits) > 0
   /\ \A i \in DOMAIN ctor.limits : IsValid(ctor.limits[i]) /\ ctor.limits[i].Unlimited
   /\ ~hasDuplicate(ctor.limits) /\ ~hasIncomplete(ctor.limits))
     => /\ ctor.out.err = ErrAllUnlimited
        /\ ~ctor.out.built
        /\ ctor.out.reclaimer = "none"

\* C24: newExpirableStore returns ErrInvalidMaxSize when maxSize <= 0, else
\* ErrInvalidParameter when maxEntryTTL <= 0, else ErrInvalidNumberBuckets when
\* the number of buckets is <= 0; with each of these errors it returns no
\* store and has started no reclaimer.
C24_StoreParametersChecked ==
  (ctor.op = "newExpirableStore" /\ ctor.called) =>
     /\ ctor.maxSize <= 0 => ctor.out.err = ErrInvalidMaxSize
     /\ (ctor.maxSize > 0 /\ ctor.ttl <= 0) => ctor.out.err = ErrInvalidParameter
     /\ (ctor.maxSize > 0 /\ ctor.ttl > 0 /\ ctor.n <= 0)
           => ctor.out.err = ErrInvalidNumberBuckets
     /\ ctor.out.err \in {ErrInvalidMaxSize, ErrInvalidParameter, ErrInvalidNumberBuckets}
           => /\ ~ctor.out.built
              /\ ctor.out.st = NilStore
              /\ ctor.out.reclaimer = "none"
              /\ ctor.maxSize <= 0 \/ ctor.ttl <= 0 \/ ctor.n <= 0

\* A call with a good maxSize and neither a good TTL nor a good number of
\* buckets has returned.
C24_Witness ==
  /\ ctor.op = "newExpirableStore" /\ ctor.called
  /\ ctor.maxSize > 0 /\ ctor.ttl <= 0 /\ ctor.n <= 0
  /\ ctor.out.err = ErrInvalidParameter

\* The greatest period among the limits of a list that are not Unlimited.
maxLimitedPeriod(limits) ==
  SetMax({limits[i].Period : i \in {j \in DOMAIN limits : ~limits[j].Unlimited}} \cup {0})

C26_EveryBucketCountUsable ==
  (/\ ctor.op = "newExpirableStore" /\ ctor.called
   /\ ctor.maxSize > 0 /\ ctor.ttl > 0 /\ ctor.n >= 1)
     => /\ ctor.out.err = NilErr
        /\ ctor.out.built
        /\ ctor.out.reclaimer = "running"
        /\ ctor.out.st.bucketTTL > 0
        /\ \A period \in 1..ctor.ttl : \A next \in 0..(ctor.n - 1) :
              ((period \div ctor.out.st.bucketTTL) + next) % ctor.n \in 0..(ctor.n - 1)

limitedPers(m) == SelectSeq(allowOrder, LAMBDA per : per \in DOMAIN m /\ ~m[per].Unlimited)

\* C28: in whatever order the limits were added, the header value of a policy
\* is the entries of its limited limits in the order total, ip-address,
\* auth-token, with nothing for an Unlimited limit, and is empty exactly when
\* all its limits are Unlimited; SetPolicyHeader sets no header when the value
\* is empty or the policy is missing, and sets the value otherwise.
C28_HeaderListsLimited ==
  /\ httpHeaderValue(pol) =
        Join([i \in 1..Len(limitedPers(pol.m)) |-> headerEntry(pol.m[limitedPers(pol.m)[i]])],
             ", ")
  /\ httpHeaderValue(pol) = "" <=> \A per \in DOMAIN pol.m : pol.m[per].Unlimited
  /\ polh.op = "SetPolicyHeader" =>
        LET missing == <<polh.arg.Resource, polh.arg.Action>> # <<pol.resource, pol.action>>
        IN /\ missing => polh.err = ErrLimitPolicyNotFound /\ polh.header = EmptyMap
           /\ ~missing => polh.err = NilErr
           /\ (~missing /\ httpHeaderValue(pol) = "") => polh.header = EmptyMap
           /\ (~missing /\ httpHeaderValue(pol) # "")
                 => polh.header = [k \in {DefaultPolicyHeader} |-> httpHeaderValue(pol)]

\* SetPolicyHeader has set the header of a policy whose ip-address limit is
\* Unlimited and whose auth-token limit was added before its total limit.
C28_Witness ==
  /\ polh.op = "SetPolicyHeader" /\ polh.err = NilErr
  /\ polh.header # EmptyMap
  /\ pol.m[LimitPerIPAddress].Unlimited
  /\ pol.policy = "2;w=1;comment=\"total\", 1;w=1;comment=\"auth-token\""

\* C29: Remaining is MaxRequests - used when used <= MaxRequests and 0
\* otherwise, for all unsigned MaxRequests and used up to the greatest value of
\* the width; it never exceeds MaxRequests.
C29_RemainingSaturates ==
  quo.op = "Remaining" =>
     /\ quo.q.used <= quo.q.limit.MaxRequests
           => quo.out = quo.q.limit.MaxRequests - quo.q.used
     /\ quo.q.used > quo.q.limit.MaxRequests => quo.out = 0
     /\ quo.out <= quo.q.limit.MaxRequests

\* Remaining was called with used at the greatest value of the width and
\* MaxRequests below it.
C29_Witness ==
  /\ quo.op = "Remaining"
  /\ quo.q.used = MaxUint
  /\ quo.q.limit.MaxRequests \in 1..(MaxUint - 1)
  /\ quo.out = 0

\* A step of emptyExpiredBucket: it advances nextBucketToExpire, or its sleep
\* is over and it empties the bucket.
reclaimerStep ==
  \/ s'.nextBucketToExpire # s.nextBucketToExpire
  \/ rpc = "sleep" /\ rpc' = "wait"

\* C30: the reclaimer removes an entry only if its quota is Expired when it
\* is removed, whatever fetch calls ran while the reclaimer slept with the
\* mutex released.
C30_ReclaimerRemovesOnlyExpired ==
  [][reclaimerStep =>
       \A k \in DOMAIN s.items \ DOMAIN s'.items : Expired(s.heap[s.items[k]], Now)]_vars

\* C31: a Quota that fetch returned to an Allow call stays bound to the key it
\* was fetched for until the call has finished, and every quota an Allow call
\* consumes is, when it is consumed, the quota of one of the call's own keys.
C31_QuotaStaysBound ==
  \A p \in Procs :
     /\ \A per \in requiredLimitPer :
           (pc[p] \in {"fetch", "consume"} /\ quotas[p][per] # NilEntry)
              => s.heap[quotas[p][per]].key = requestKey(args[p], per)
     /\ \A i \in DOMAIN charged[p] :
           charged[p][i].key \in {requestKey(args[p], per) : per \in requiredLimitPer}

\* The goroutines that call Allow where calls do not overlap: at any time at
\* most this many Allow calls execute.
sequentialCallers == {p \in Procs : \A o \in Procs : p <= o}

\* C32: with n Allow calls executing concurrently no quota's used exceeds its
\* MaxRequests by more than n; here for calls that do not overlap, n = 1.
C32_OverByAtMostCallers ==
  \A e \in EntryIds :
     s.heap[e].key # "" =>
        s.heap[e].used <= s.heap[e].limit.MaxRequests + Cardinality(sequentialCallers)

\* C33: the entry a fetch adds, or puts into a bucket again after its quota
\* expired, lies in the bucket (floor(Period / bucketTTL) + nextBucketToExpire)
\* mod numberBuckets, with nextBucketToExpire as it is at the fetch, and in no
\* other bucket, and entry.bucket is that index.
C33_BucketOfEntry ==
  [][(/\ last'.op = "fetch" /\ last'.err = NilErr
      /\ last'.key \notin DOMAIN s.items \/ last'.expired)
       => LET k == last'.key
              e == s'.items[k]
              b == ((s'.heap[e].limit.Period \div s.bucketTTL) + s.nextBucketToExpire)
                     % s.numberBuckets
          IN /\ s'.heap[e].bucket = b
             /\ \A o \in DOMAIN s'.buckets :
                   k \in DOMAIN s'.buckets[o].entries <=> o = b
             /\ s'.buckets[b].entries[k] = e]_vars

\* A fetch has put an entry whose quota had expired into a bucket again, after
\* a sweep moved nextBucketToExpire on, and the entry's bucket is not the one
\* its period alone gives.
C33_Witness ==
  /\ last.op = "fetch" /\ last.err = NilErr /\ last.expired
  /\ s.nextBucketToExpire # 0
  /\ s.heap[last.q].bucket
        # (s.heap[last.q].limit.Period \div s.bucketTTL) % s.numberBuckets

\* k of an entry: floor(Period / bucketTTL) mod numberBuckets.
sweepsAhead(st, e) == (st.heap[e].limit.Period \div st.bucketTTL) % st.numberBuckets

\* C34: a sweep removes an entry exactly when it is sweep number k + 1 of the
\* sweeps begun since the entry was placed, k = floor(Period / bucketTTL) mod
\* numberBuckets: no sweep removes an entry earlier, and once a sweep has
\* ended no entry it was sweep number k + 1 for is left.
C34_RemovedBySweepOfItsTurn ==
  [][reclaimerStep =>
       /\ \A key \in DOMAIN s.items \ DOMAIN s'.items :
             swept.n[key] + (IF rpc = "wait" THEN 1 ELSE 0)
                = sweepsAhead(s, s.items[key]) + 1
       /\ rpc' = "wait" =>
             \A key \in DOMAIN s'.items :
                swept'.n[key] <= sweepsAhead(s', s'.items[key])]_vars

\* C35: a sweep, and nothing else, advances nextBucketToExpire, by one modulo
\* numberBuckets; when it ends, the bucket that was nextBucketToExpire when it
\* began is empty, the keys that left items are the keys of that bucket, and
\* every other bucket, every entry that stays and every used counter of an
\* entry that stays is as before the step.
C35_SweepEmptiesOneBucket ==
  [][/\ s'.nextBucketToExpire \in 0..(s.numberBuckets - 1)
     /\ s'.nextBucketToExpire # s.nextBucketToExpire =>
           /\ rpc = "wait"
           /\ s'.nextBucketToExpire = (s.nextBucketToExpire + 1) % s.numberBuckets
           /\ toExpire' = s.nextBucketToExpire
     /\ (reclaimerStep /\ rpc' = "sleep") =>
           /\ s'.items = s.items /\ s'.buckets = s.buckets /\ s'.heap = s.heap
     /\ (reclaimerStep /\ rpc' = "wait") =>
           /\ DOMAIN s'.buckets[toExpire'].entries = {}
           /\ DOMAIN s'.items = DOMAIN s.items \ DOMAIN s.buckets[toExpire'].entries
           /\ \A o \in DOMAIN s.buckets \ {toExpire'} : s'.buckets[o] = s.buckets[o]
           /\ \A k \in DOMAIN s'.items :
                 /\ s'.items[k] = s.items[k]
                 /\ s'.heap[s'.items[k]] = s.heap[s.items[k]]]_vars

\* A sweep has ended that emptied a bucket (its expiresAt is still ahead, of
\* an entry it held) and left the entries of another bucket.
C35_Witness ==
  /\ rpc = "wait" /\ last = NoLast
  /\ s.nextBucketToExpire = (toExpire + 1) % s.numberBuckets
  /\ DOMAIN s.buckets[toExpire].entries = {}
  /\ s.buckets[toExpire].expiresAt > Now
  /\ \E k \in DOMAIN s.items : s.heap[s.items[k]].bucket # toExpire

\* C36 as stated: the expiresAt of every bucket that holds an entry is the
\* greatest expiresAt of the quotas of its entries: some entry of the bucket
\* has a quota that expires at that very instant.
C36_BucketExpiresAtIsMax ==
  \A b \in DOMAIN s.buckets :
     DOMAIN s.buckets[b].entries # {} => DOMAIN s.buckets[b].entries \cap top # {}

\* C36, amended: the expiresAt of a bucket is not before the expiresAt of the
\* quota of any entry the bucket holds.
C36_BucketExpiresAtNotBefore ==
  \A b \in DOMAIN s.buckets :
     \A k \in DOMAIN s.buckets[b].entries :
        s.buckets[b].expiresAt >= s.heap[s.buckets[b].entries[k]].expiresAt

\* A bucket holds two entries whose quotas have not expired, and its
\* expiresAt is that of the later one.
C36_Witness ==
  \E b \in DOMAIN s.buckets :
     \E k1, k2 \in DOMAIN s.buckets[b].entries :
        /\ s.heap[s.items[k1]].expiresAt > s.heap[s.items[k2]].expiresAt
        /\ s.heap[s.items[k2]].expiresAt > Now
        /\ s.buckets[b].expiresAt = s.heap[s.items[k1]].expiresAt
        /\ k1 \in top /\ k2 \notin top

\* One fetch call of one client: fetch(id, limit) as a whole, lock to unlock.
fetchOfOneClient ==
  LET x == CHOOSE y \in LiveInputs : TRUE
  IN \E e0 \in PoolGet(s, getKey(<<x[2].Resource, x[2].Action, x[2].Per, x[1]>>)) :
        StoreFetch(x[1], x[2], e0)

InitWindow ==
  /\ InitLimiter
  /\ swept = NotSwept
  /\ top = {}
  /\ win = [NoWin EXCEPT !.on = TRUE]
  /\ ctor = NoCtor
  /\ pol = NoPolicy
  /\ polh = NoPolh
  /\ quo = NoQuo

SpecWindow == InitWindow /\ [][Next]_vars

\* C38: the used counter of a quota never goes down while the quota's window
\* is open.  In every step, the used counter of the quota of a stored key
\* changes either by +1 (Consume) or to 0 by a fetch made when the quota had
\* expired; and a key that the reclaimer removed comes back with used = 0 only
\* when the quota it had at its removal has expired.
C38_UsedMonotoneInWindow ==
  [][\A k \in DOMAIN s'.items :
       LET q1 == s'.heap[s'.items[k]]
       IN /\ k \in DOMAIN s.items =>
               LET q == s.heap[s.items[k]]
               IN q1.used # q.used =>
                     \/ q1.used = q.used + 1
                     \/ q1.used = 0 /\ Expired(q, Now)
          /\ (k \notin DOMAIN s.items /\ k \in DOMAIN win.q) =>
               q1.used >= win.q[k].used]_vars

\* The Allow call of p has returned the error of one of its fetches.
failedByFetch(p) ==
  /\ pc[p] = "done"
  /\ ret[p].err.kind \in {"ErrLimiterFull", "ErrStopped"}

\* The dimensions the call of p fetched a quota for.
fetchedBefore(p) == {per \in requiredLimitPer : quotas[p][per] # NilEntry}

\* C39 as stated, for the first Allow call on a new limiter: when it returns
\* the error of one of its fetches the store is as newExpirableStore made
\* it, no entry in s.items and none in a bucket.
C39_FailedAllowLeavesStore ==
  \A p \in Procs :
     (calls = 1 /\ failedByFetch(p)) =>
        /\ s.items = newExpirableStore.items
        /\ s.buckets = newExpirableStore.buckets

\* C39, amended: an Allow call that returns the error of one of its fetches
\* has called Consume on no quota, and the quotas its earlier fetches returned
\* are in the store, under their keys, when it returns.
C39_FailedAllowKeepsFetched ==
  \A p \in Procs :
     failedByFetch(p) =>
        /\ charged[p] = <<>>
        /\ \A per \in fetchedBefore(p) :
              /\ requestKey(args[p], per) \in DOMAIN s.items
              /\ s.items[requestKey(args[p], per)] = quotas[p][per]

\* A call has returned ErrLimiterFull after a fetch of its own admitted a quota.
C39_Witness ==
  /\ failedByFetch(1)
  /\ ret[1].err.kind = "ErrLimiterFull"
  /\ \E per \in fetchedBefore(1) : s.heap[quotas[1][per]].used = 0

\* The steps of the Allow call p has begun: one iteration of the fetch loop,
\* one of the Consume loop, or the return (with the deferred l.mu.RUnlock).
callSteps(p) ==
  \/ \E per \in requiredLimitPer :
       \E e0 \in PoolGet(s, getKey(<<args[p][1], args[p][2], per, keyOf(args[p], per)>>)) :
          AllowFetch(p, per, e0)
  \/ AllowConsume(p)
  \/ AllowReturn(p)

\* Two Allow calls that overlap: the second begins while the first runs.
ConcurrentCallers ==
  \/ calls = 0 /\ \E req \in Requests : AllowBegin(1, req)
  \/ calls = 1 /\ pc[1] # "idle" /\ \E req \in Requests : AllowBegin(2, req)
  \/ \E p \in Procs : callSteps(p)

\* The clock, one unit at a time; a unit is long against an Allow call, and no
\* call is in flight across the end of one.
TickBetweenCalls == (\A p \in Procs : pc[p] = "idle") /\ Tick

\* ENABLED <<callSteps(p)>>_vars: the call has begun and not returned, and
\* where its next step is a fetch, s.mu can be taken.  Allow takes l.mu.RLock,
\* and nothing in the package takes l.mu.Lock.
canStep(p) ==
  \/ pc[p] \in {"consume", "done"}
  \/ pc[p] = "fetch" /\ ~reclaimerHoldsMu(rpc)

\* <<callSteps(p)>>_vars as seen on p's own state.
stepped(p) == pc[p] # "idle" /\ <<pc[p], todo[p], ci[p]>>' # <<pc[p], todo[p], ci[p]>>

NextFair ==
  \/ ConcurrentCallers
  \/ Shutdown
  \/ SweepBegin
  \/ SweepWake
  \/ ReclaimerExit
  \/ TickBetweenCalls

\* The limiter with two overlapping Allow calls, the reclaimer, Shutdown and
\* the clock, under fair scheduling: every goroutine that can run does run in
\* the end (weak fairness of each call's steps, written out, and of the
\* reclaimer's wake-up), and time passes.
SpecFair ==
  /\ Init /\ [][NextFair]_vars
  /\ \A p \in Procs : []<>(~canStep(p)) \/ []<><<stepped(p)>>_vars
  /\ WF_vars(SweepWake)
  /\ WF_vars(TickBetweenCalls)

====
